---- MODULE Spec2Model ----
(***************************************************************************)
(* The character physics layer of apps/openmw/mwphysics/physicssystem.cpp: *)
(* the PhysicsSystem facade (registration of objects, actors, heightfields *)
(* and water in the collision world, movement queue, fixed tick drain) and *)
(* the MovementSolver (move, stepMove, slide).                             *)
(*                                                                         *)
(* Numbers are the program's: a float is an IEEE-754 single, written as    *)
(* the pair <<m, e>> of the value m * 2^e with m = 0, e = 0 or             *)
(* 2^23 <= |m| < 2^24.  Every operation rounds its exact result to the     *)
(* nearest float, ties to even, as the code compiled without fused         *)
(* multiply-add does.  The exponent is not bounded: the magnitudes of the  *)
(* model stay far from overflow and from the subnormal range.  Lengths are *)
(* in world units, velocities in units per second, times in seconds.  A    *)
(* sweep fraction is the float nearest to k/FracDen.                       *)
(***************************************************************************)
EXTENDS Integers, Sequences, FiniteSets, Bags, TLC

\* ------------------------------------------------------------ bounds
FracDen == 2                  \* sweep fractions are 0/FracDen .. FracDen/FracDen
MaxLeaked == 1                \* records that are allocated and in no map

\* ------------------------------------------------- program constants
sStepSizeUp == 34
sStepSizeDown == 62
sMaxIterations == 8
fSwimHeightScalePct == 90     \* the game setting fSwimHeightScale, in percent
halfExtentsZ == 64            \* the capsule's half height

\* ------------------------------------------------------------- floats
FZero == <<0, 0>>

\* the float s * (a + f) * 2^e rounds to, a having 24 + k bits
Normal(s, a, sticky, e, k) ==
    IF k <= 0 THEN <<s * a * 2^(-k), e + k>>
    ELSE IF \/ a % 2^k > 2^(k - 1)
            \/ a % 2^k = 2^(k - 1) /\ (sticky \/ (a \div 2^k) % 2 = 1)
    THEN IF a \div 2^k + 1 = 16777216 THEN <<s * 8388608, e + k + 1>>
         ELSE <<s * (a \div 2^k + 1), e + k>>
    ELSE <<s * (a \div 2^k), e + k>>

\* the float nearest to s * (a + f) * 2^e, ties to even: s is 1 or -1, a is an
\* integer, 0 <= a < 2^31, f is a fraction in [0, 1) that is not zero iff sticky
Round(s, a, sticky, e) ==
    IF a = 0 THEN FZero
    ELSE Normal(s, a, sticky, e,
                (IF a < 65536
                 THEN IF a < 256
                      THEN IF a < 16
                           THEN IF a < 4 THEN (IF a < 2 THEN 1 ELSE 2) ELSE (IF a < 8 THEN 3 ELSE 4)
                           ELSE IF a < 64 THEN (IF a < 32 THEN 5 ELSE 6) ELSE (IF a < 128 THEN 7 ELSE 8)
                      ELSE IF a < 4096
                           THEN IF a < 1024 THEN (IF a < 512 THEN 9 ELSE 10) ELSE (IF a < 2048 THEN 11 ELSE 12)
                           ELSE IF a < 16384 THEN (IF a < 8192 THEN 13 ELSE 14) ELSE (IF a < 32768 THEN 15 ELSE 16)
                 ELSE IF a < 16777216
                      THEN IF a < 1048576
                           THEN IF a < 262144 THEN (IF a < 131072 THEN 17 ELSE 18) ELSE (IF a < 524288 THEN 19 ELSE 20)
                           ELSE IF a < 4194304 THEN (IF a < 2097152 THEN 21 ELSE 22) ELSE (IF a < 8388608 THEN 23 ELSE 24)
                      ELSE IF a < 268435456
                           THEN IF a < 67108864 THEN (IF a < 33554432 THEN 25 ELSE 26) ELSE (IF a < 134217728 THEN 27 ELSE 28)
                           ELSE IF a < 1073741824 THEN (IF a < 536870912 THEN 29 ELSE 30) ELSE 31) - 24)

\* the float nearest to (t + f) * 2^e: t is an integer, f as for Round
Float(t, sticky, e) ==
    Round(IF t < 0 THEN -1 ELSE 1,
          IF t >= 0 THEN t ELSE IF sticky THEN -t - 1 ELSE -t, sticky, e)

\* the conversion of an int to float
FromInt(n) == Float(n, FALSE, 0)

\* b + c, neither zero: b keeps g bits more than c at most, c drops its last k
\* bits, and what it drops is the fraction
Sum(b, c, g, k) == Float(b[1] * 2^g + c[1] \div 2^k, c[1] % 2^k # 0, b[2] - g)

\* x + y
FAdd(x, y) ==
    LET d == IF x[2] >= y[2] THEN x[2] - y[2] ELSE y[2] - x[2]
    IN  IF x[1] = 0 THEN y
        ELSE IF y[1] = 0 THEN x
        ELSE Sum(IF x[2] >= y[2] THEN x ELSE y, IF x[2] >= y[2] THEN y ELSE x,
                 IF d > 6 THEN 6 ELSE d,
                 IF d > 31 THEN 25 ELSE IF d > 6 THEN d - 6 ELSE 0)

\* x - y
FSub(x, y) == FAdd(x, <<-y[1], y[2]>>)

\* x * y: the mantissas in halves of 12 bits, the product cut to 2^22
FMul(x, y) ==
    IF x[1] = 0 \/ y[1] = 0 THEN FZero
    ELSE LET xh == x[1] \div 4096
             xl == x[1] % 4096
             yh == y[1] \div 4096
             yl == y[1] % 4096
             low == ((xh * yl + xl * yh) % 1024) * 4096 + xl * yl
         IN  Float(4 * xh * yh + (xh * yl + xl * yh) \div 1024 + low \div 4194304,
                   low % 4194304 # 0, x[2] + y[2] + 22)

\* x / y, y not zero: 29 bits of the quotient by long division, seven bits a
\* step; q and r are the quotient and the rest before the last n steps
FDiv(x, y) ==
    LET RECURSIVE LongDiv(_, _, _, _)
        LongDiv(q, r, b, n) ==
            IF n = 0
            THEN Round(IF (x[1] < 0) = (y[1] < 0) THEN 1 ELSE -1, q, r # 0,
                       x[2] - y[2] - 28)
            ELSE LongDiv(q * 128 + (r * 128) \div b, (r * 128) % b, b, n - 1)
        Abs(m) == IF m < 0 THEN -m ELSE m
    IN  IF x[1] = 0 THEN FZero
        ELSE LongDiv(Abs(x[1]) \div Abs(y[1]), Abs(x[1]) % Abs(y[1]), Abs(y[1]), 4)

\* sqrtf(x), x >= 0: the first 13 bits of the root by Newton's method, then 8, 4
\* and 1 more.  A chunk is <<R, M>>, the root R of a number and what the number
\* has above R * R; Digit adds the bits of p - 1 to it.
FSqrt(x) ==
    LET Newton(n, r) == (r + n \div r) \div 2
        First(n, r) ==
            IF r * r > n THEN <<r - 1, n - (r - 1) * (r - 1)>>
            ELSE IF (r + 1) * (r + 1) <= n THEN <<r + 1, n - (r + 1) * (r + 1)>>
            ELSE <<r, n - r * r>>
        Pick(R, m, d) ==
            IF m - 2 * R * d - d * d >= 0 THEN <<R + d, m - 2 * R * d - d * d>>
            ELSE IF m - 2 * R * (d - 1) - (d - 1) * (d - 1) >= 0
            THEN <<R + d - 1, m - 2 * R * (d - 1) - (d - 1) * (d - 1)>>
            ELSE <<R + d - 2, m - 2 * R * (d - 2) - (d - 2) * (d - 2)>>
        Digit(R, m, p) ==
            Pick(R, m, IF m \div (2 * R) > p - 1 THEN p - 1 ELSE m \div (2 * R))
        Chunk(c, p) == Digit(c[1] * p, c[2] * p * p, p)
        Nearest(c, e) == Round(1, c[1], c[2] # 0, e)
        Root(n, e) ==
            Nearest(Chunk(Chunk(Chunk(First(n, Newton(n, Newton(n, Newton(n, 4096)))),
                                      256), 16), 2), e)
    IN  IF x[1] = 0 THEN FZero
        ELSE Root(IF x[2] % 2 # 0 THEN x[1] * 2 ELSE x[1],
                  (IF x[2] % 2 # 0 THEN x[2] - 1 ELSE x[2]) \div 2 - 13)

\* x < y
FLt(x, y) ==
    IF x[1] = 0 THEN y[1] > 0
    ELSE IF y[1] = 0 THEN x[1] < 0
    ELSE IF (x[1] < 0) # (y[1] < 0) THEN x[1] < 0
    ELSE IF x[1] > 0 THEN x[2] < y[2] \/ (x[2] = y[2] /\ x[1] < y[1])
    ELSE x[2] > y[2] \/ (x[2] = y[2] /\ x[1] < y[1])

\* x <= y
FLe(x, y) == ~FLt(y, x)

\* the float literal of the decimal n/d: the float nearest to the quotient
F(n, d) == FDiv(FromInt(n), FromInt(d))

\* 1.0f
FOne == <<8388608, -23>>

\* the fixed tick, 1.0f/60.0f = 8947849 * 2^-29
Tick == <<8947849, -29>>

\* ------------------------------------------------------------ vectors
\* osg::Vec3f and its operators, each evaluated in the order osg writes it
Zero3 == <<<<0, 0>>, <<0, 0>>, <<0, 0>>>>
Vec3f(x, y, z) == <<FromInt(x), FromInt(y), FromInt(z)>>
VAdd(u, v) == <<FAdd(u[1], v[1]), FAdd(u[2], v[2]), FAdd(u[3], v[3])>>
VSub(u, v) == <<FSub(u[1], v[1]), FSub(u[2], v[2]), FSub(u[3], v[3])>>
VScale(v, k) == <<FMul(v[1], k), FMul(v[2], k), FMul(v[3], k)>>
Dot(u, v) == FAdd(FAdd(FMul(u[1], v[1]), FMul(u[2], v[2])), FMul(u[3], v[3]))
Length2(v) == Dot(v, v)
Length(v) == FSqrt(Length2(v))
WithZ(v, z) == <<v[1], v[2], z>>

\* the vector Vec3f::normalize leaves (it returns Length(v))
Normalized(v) ==
    LET Scaled(norm) == IF FLt(FZero, norm) THEN VScale(v, FDiv(FOne, norm)) ELSE v
    IN  Scaled(Length(v))

\* The osg::Quat Quat(pitch, (-1,0,0)) * Quat(yaw, (0,0,-1)) of a pitch and a yaw
\* of whole quarter turns, the angles being the floats nearest to the multiples of
\* pi/2: its x, y and z converted to float and 2.0f * w, as Quat * Vec3f reads them.
\* The components of the quaternion are doubles: those of makeRotate are
\* sin and cos of half the angle, and their product is Quat::operator*.
Quat(pitch, yaw) ==
  <<
    << <<<<0, 0>>, <<0, 0>>, <<0, 0>>, <<8388608, -22>>>>,
       <<<<0, 0>>, <<0, 0>>, <<-11863283, -24>>, <<11863283, -23>>>>,
       <<<<0, 0>>, <<0, 0>>, <<-8388608, -23>>, <<-12303662, -47>>>>,
       <<<<0, 0>>, <<0, 0>>, <<-11863283, -24>>, <<-11863283, -23>>>> >>,
    << <<<<-11863283, -24>>, <<0, 0>>, <<0, 0>>, <<11863283, -23>>>>,
       <<<<-8388608, -24>>, <<8388608, -24>>, <<-8388608, -24>>, <<16777215, -24>>>>,
       <<<<8700003, -48>>, <<11863283, -24>>, <<-11863283, -24>>, <<-8700003, -47>>>>,
       <<<<8388608, -24>>, <<8388608, -24>>, <<-8388608, -24>>, <<-8388608, -23>>>> >>,
    << <<<<-8388608, -23>>, <<0, 0>>, <<0, 0>>, <<-12303662, -47>>>>,
       <<<<-11863283, -24>>, <<11863283, -24>>, <<8700003, -48>>, <<-8700003, -47>>>>,
       <<<<12303662, -48>>, <<8388608, -23>>, <<12303662, -48>>, <<9022958, -71>>>>,
       <<<<11863283, -24>>, <<11863283, -24>>, <<8700003, -48>>, <<8700003, -47>>>> >>,
    << <<<<-11863283, -24>>, <<0, 0>>, <<0, 0>>, <<-11863283, -23>>>>,
       <<<<-8388608, -24>>, <<8388608, -24>>, <<8388608, -24>>, <<-8388608, -23>>>>,
       <<<<8700003, -48>>, <<11863283, -24>>, <<11863283, -24>>, <<8700003, -47>>>>,
       <<<<8388608, -24>>, <<8388608, -24>>, <<8388608, -24>>, <<8388608, -23>>>> >>
  >>[(pitch % 4) + 1][(yaw % 4) + 1]

\* osg::Quat::operator*(const Vec3f&); Cross is osg::Vec3f::operator^
QuatRotate(q, v) ==
    LET Cross(u, w) ==
            <<FSub(FMul(u[2], w[3]), FMul(u[3], w[2])),
              FSub(FMul(u[3], w[1]), FMul(u[1], w[3])),
              FSub(FMul(u[1], w[2]), FMul(u[2], w[1]))>>
        Turned(uv) ==
            VAdd(VAdd(v, VScale(uv, q[4])),
                 VScale(Cross(<<q[1], q[2], q[3]>>, uv), FromInt(2)))
    IN  Turned(Cross(<<q[1], q[2], q[3]>>, v))

\* osg::Quat(angle, (0,0,-1)) * v, the angle in quarter turns
RotateYaw(q, v) == QuatRotate(Quat(0, q), v)

\* (Quat(rot[0], -x) * Quat(rot[2], -z)) * v: osg applies the left factor first
RotatePitchYaw(pitch, yaw, v) == QuatRotate(Quat(pitch, yaw), v)

\* ------------------------------------------------------ plane normals
\* (0, 0, 1), (0, -0.6, 0.8), (0, -0.8, 0.6), (0, -1, 0) and (0, 0, -1): 0.6f is
\* 10066330 * 2^-24 and 0.8f is 13421773 * 2^-24
NormalUp == <<<<0, 0>>, <<0, 0>>, <<8388608, -23>>>>
NormalGentle == <<<<0, 0>>, <<-10066330, -24>>, <<13421773, -24>>>>
NormalSteep == <<<<0, 0>>, <<-13421773, -24>>, <<10066330, -24>>>>
NormalWall == <<<<0, 0>>, <<-8388608, -23>>, <<0, 0>>>>
Down == <<<<0, 0>>, <<0, 0>>, <<-8388608, -23>>>>

\* getSlope(normal) <= sMaxSlope.  getSlope is acos(normal * (0,0,1)) in degrees;
\* acos decreases, so the slope is at most sMaxSlope = 49 degrees iff the product
\* is at least 0.65605903, the least float whose acosf is at most 49 degrees.
SlopeOk(normal) == FLe(<<11006844, -24>>, Dot(normal, NormalUp))

project(u, v) == VScale(v, Dot(u, v))
slide(direction, planeNormal) == VSub(direction, project(direction, planeNormal))
reflect(velocity, normal) ==
    VSub(velocity, VScale(VScale(normal, Dot(normal, velocity)), FromInt(2)))

\* ---------------------------------------------------- entities and inputs
\* The entity handles (MWWorld::Ptr).  The class of an entity is fixed:
\* the idol is not mobile, the fish is a pure water creature.
Ptrs == {"player", "fish", "idol"}
PlayerPtr == "player"
isMobile(ptr) == ptr # "idol"
isPureWaterCreature(ptr) == ptr = "fish"

\* The frame times passed to applyQueuedMovement: half a tick and a tick
DtValues == {F(1, 120), Tick}

\* What the physics reads of an entity in the game world
RefData(pos, pitch, yaw, flying, slowFall, waterWalking, hasWater, waterLevel) ==
    [pos |-> pos, pitch |-> pitch, yaw |-> yaw, flying |-> flying,
     slowFallMagnitude |-> slowFall, waterWalking |-> waterWalking,
     cellHasWater |-> hasWater, waterLevel |-> waterLevel]

\* MWBase::World::isUnderwater(cell, pos)
isUnderwater(ref) == ref.cellHasWater /\ FLt(ref.pos[3], ref.waterLevel)

\* ------------------------------------------------------------- tracer
CollisionType_World == "World"
CollisionType_Actor == "Actor"
NoHitObject == "None"

\* std::numeric_limits<float>::epsilon()
Epsilon == <<8388608, -46>>

\* ActorTracer::doTrace from start to end, the collision library answering
\* the closest hit fraction k/FracDen, plane normal and filter group of the
\* hit object
doTrace(start, end, k, normal, group) ==
    IF k >= FracDen
    THEN [mFraction |-> FOne, mEndPos |-> end, mPlaneNormal |-> NormalUp,
          mHitGroup |-> NoHitObject]
    ELSE [mFraction |-> F(k, FracDen),
          mEndPos |-> VAdd(VScale(VSub(end, start), F(k, FracDen)), start),
          mPlaneNormal |-> normal, mHitGroup |-> group]

\* The answers to the three sweeps of one stepMove call.  A sweep that
\* stepMove does not reach is given once, as a sweep without a hit, and so
\* is the third sweep when it does not hit.
StepAnswers ==
    {o \in [up : 0 .. FracDen, fwd : 0 .. FracDen,
            down : {[k |-> FracDen, normal |-> NormalUp, group |-> NoHitObject]}
                   \cup [k : 0 .. FracDen - 1,
                         normal : {NormalUp, NormalGentle, NormalSteep, NormalWall},
                         group : {CollisionType_World, CollisionType_Actor}]] :
        /\ (o.up = 0 => o.fwd = FracDen)
        /\ (o.up = 0 \/ o.fwd = 0 => o.down.k = FracDen)}

NoHit == [k |-> FracDen, normal |-> NormalUp, group |-> NoHitObject]
OnFloor == [k |-> 0, normal |-> NormalUp, group |-> CollisionType_World]

OnGentle == [k |-> FracDen - 1, normal |-> NormalGentle, group |-> CollisionType_World]
OnSteep == [k |-> 0, normal |-> NormalSteep, group |-> CollisionType_World]
AtWall == [k |-> 0, normal |-> NormalWall, group |-> CollisionType_World]
OnActor == [k |-> 0, normal |-> NormalUp, group |-> CollisionType_Actor]

StepBlocked == [up |-> 0, fwd |-> FracDen, down |-> NoHit]
StepOntoLedge == [up |-> FracDen, fwd |-> FracDen, down |-> OnFloor]
StepOntoSteep == [up |-> FracDen, fwd |-> FracDen, down |-> OnSteep]

\* What the collision world of a scene answers: to the primary sweep of an
\* iteration, to the three sweeps of a stepMove call, to the ground probe.
Scenes == {"flat", "open", "floor", "slope", "cliff", "wall", "stairs", "crowd"}

Sweeps(scene) ==
    CASE scene = "flat"   -> {OnFloor}
      [] scene = "open"   -> {NoHit}
      [] scene = "floor"  -> {NoHit}
      [] scene = "slope"  -> {OnGentle}
      [] scene = "cliff"  -> {OnSteep}
      [] scene = "wall"   -> {AtWall}
      [] scene = "stairs" -> {AtWall}
      [] OTHER            -> {[AtWall EXCEPT !.group = CollisionType_Actor]}

Steps(scene) ==
    CASE scene = "flat"   -> {StepBlocked, StepOntoLedge}
      [] scene = "open"   -> {StepBlocked}
      [] scene = "floor"  -> {StepBlocked}
      [] scene = "slope"  -> {StepBlocked, StepOntoSteep}
      [] scene = "cliff"  -> {StepBlocked, StepOntoSteep}
      [] scene = "wall"   -> {StepBlocked, [StepOntoLedge EXCEPT !.down = NoHit]}
      [] scene = "stairs" -> {StepBlocked, StepOntoLedge,
                               [up |-> FracDen - 1, fwd |-> FracDen - 1, down |-> OnGentle]}
      [] OTHER            -> {[StepOntoLedge EXCEPT !.down = OnActor]}

Probes(scene) ==
    CASE scene = "flat"   -> {OnFloor}
      [] scene = "open"   -> {NoHit}
      [] scene = "floor"  -> {OnFloor, OnGentle}
      [] scene = "slope"  -> {OnGentle, NoHit}
      [] scene = "cliff"  -> {OnSteep, NoHit}
      [] scene = "wall"   -> {OnFloor}
      [] scene = "stairs" -> {OnFloor, NoHit}
      [] OTHER            -> {OnActor}

\* the actor's position minus the center of the actor below it
Offsets(scene) == IF scene = "crowd" THEN {Vec3f(30, 0, 0), Zero3} ELSE {Vec3f(30, 0, 0)}

\* ---------------------------------------------------- collision world
CollisionType_HeightMap == "HeightMap"
CollisionType_Water == "Water"

\* The meshes of addObject; the marker has no collision shape
Meshes == {"rock", "marker"}
hasCollisionShape(mesh) == mesh # "marker"

\* The cells (x, y) of the heightfields, and the water heights (world units)
Cells == {<<0, 0>>, <<0, 1>>}
WaterHeights == {0, 100}

\* A btCollisionObject: its filter group, the entity of the PtrHolder its
\* user pointer refers to (NoUserPointer: the user pointer is not set), and
\* what tells its shape from others of its group
NoUserPointer == "null"

\* faulty variant: the Object does not set the user pointer
ObjectWithoutUserPointer(ptr, mesh) ==
    [group |-> CollisionType_World, userPointer |-> NoUserPointer, key |-> <<mesh>>]

\* Object::Object
ObjectCollisionObject(ptr, mesh) ==
    [group |-> CollisionType_World, userPointer |-> ptr, key |-> <<mesh>>]

\* Actor::Actor: the Actor is a PtrHolder too
ActorCollisionObject(ptr) ==
    [group |-> CollisionType_Actor, userPointer |-> ptr, key |-> <<>>]

\* HeightField::HeightField
HeightFieldCollisionObject(cell) ==
    [group |-> CollisionType_HeightMap, userPointer |-> NoUserPointer, key |-> cell]

\* the btCollisionObject of updateWater
WaterCollisionObject(height) ==
    [group |-> CollisionType_Water, userPointer |-> NoUserPointer, key |-> <<height>>]

\* ------------------------------------------------------------- state
VARIABLES
    mActors,            \* ActorMap: the Actor of each registered entity, or NoActor
    mMovementQueue,     \* PtrVelocityList of (ptr, movement)
    mMovementResults,   \* PtrVelocityList of (ptr, new position)
    mTimeAccum,         \* time accumulated since the last drain
    world,              \* the game world: what the physics reads of each entity, the storm
    pc,                 \* where applyQueuedMovement stands
    iter,               \* its iterator over the movement queue
    mv,                 \* the locals of the running MovementSolver::move call; its field
                        \*          stepped is history: a stepMove call has moved the actor
    moveCalls,          \* history: the MovementSolver::move calls of the running applyQueuedMovement,
                        \*          their arguments, what their ground probe was answered and the
                        \*          position (capsule reference) a call that probed ended with
    discarded,          \* history: the last applyQueuedMovement cleared queued entries it did not process
    queuedOrder,        \* history: the entities queued since the queue was cleared, by first call
    lastQueued,         \* history: the vector of each entity's last queueObjectMovement call
    mObjects,           \* ObjectMap: the Object of each registered entity, or NoObject
    mHeightFields,      \* HeightFieldMap: the HeightField of each registered cell, or NoHeightField
    mDynamicsWorld,     \* the bag of btCollisionObjects attached to the collision world
    leaked,             \* the heap: the collision objects of the records that are
                        \*          allocated and in no map
    mWaterEnabled,
    mWaterHeight,
    mWaterCollisionObject,  \* the btCollisionObject the pointer holds, or NoWaterObject
    lastWaterCall,      \* history: whether the last water call called
                        \*          removeCollisionObject and addCollisionObject
    lastTraceDown,      \* history: the entity, the height, the answers of the
                        \*          collision world and the value returned of the
                        \*          last traceDown call
    mLocalTime          \* the time the collision world has been given by
                        \*          stepSimulation and has not simulated yet

\* the registrations in the collision world other than mActors
registry == <<mObjects, mHeightFields, mDynamicsWorld, leaked>>
water == <<mWaterEnabled, mWaterHeight, mWaterCollisionObject, lastWaterCall>>
queues == <<mMovementQueue, mMovementResults, mTimeAccum, world, pc, iter, mv,
            moveCalls, discarded, queuedOrder, lastQueued, lastTraceDown>>

vars == <<mActors, mMovementQueue, mMovementResults, mTimeAccum, world, pc, iter, mv,
          moveCalls, discarded, queuedOrder, lastQueued, mObjects, mHeightFields,
          mDynamicsWorld, leaked, mWaterEnabled, mWaterHeight, mWaterCollisionObject,
          lastWaterCall, lastTraceDown, mLocalTime>>

\* the ground probe of a move() call that did not perform it
NoProbe == [performed |-> FALSE, k |-> FracDen, normal |-> NormalUp, group |-> NoHitObject]

NoActor == [registered |-> FALSE]
NoObject == [registered |-> FALSE]
NoHeightField == [registered |-> FALSE]
NoWaterObject == [created |-> FALSE]
NoWaterCall == [removed |-> FALSE, added |-> FALSE]
NoTraceDown == [called |-> FALSE]
NoMove == [running |-> FALSE]
NoVector == <<>>

\* Actor::Actor: a fresh actor collides, is off ground and has no inertia
NewActor ==
    [onGround |-> FALSE, inertialForce |-> Zero3, collisionMode |-> TRUE,
     walkingOnWater |-> FALSE, canWaterWalk |-> FALSE]

Registered(ptr) == mActors[ptr] # NoActor

SolverPcs == {"loop", "step1", "step2", "probe"}

\* ------------------------------------------------------ MovementSolver
\* faulty variant: a landing on another actor is accepted
stepMoveOntoActors(position, toMove, remainingTime, o) ==
    LET failed == [result |-> FALSE, position |-> position, remainingTime |-> remainingTime]
        stepper == doTrace(position, VAdd(position, Vec3f(0, 0, sStepSizeUp)),
                           o.up, Down, CollisionType_World)
        tracer == doTrace(stepper.mEndPos, VAdd(stepper.mEndPos, toMove),
                          o.fwd, NormalWall, CollisionType_World)
        lander == doTrace(tracer.mEndPos,
                          VSub(tracer.mEndPos, Vec3f(0, 0, sStepSizeDown)),
                          o.down.k, o.down.normal, o.down.group)
    IN  IF FLt(stepper.mFraction, Epsilon) THEN failed
        ELSE IF FLt(tracer.mFraction, Epsilon) THEN failed
        ELSE IF FLt(lander.mFraction, FOne) /\ SlopeOk(lander.mPlaneNormal)
        THEN [result |-> TRUE, position |-> lander.mEndPos,
              remainingTime |-> FMul(remainingTime, FSub(FOne, tracer.mFraction))]
        ELSE failed

\* stepMove: o answers its three sweeps
stepMove(position, toMove, remainingTime, o) ==
    LET failed == [result |-> FALSE, position |-> position, remainingTime |-> remainingTime]
        Landed(tracer, lander) ==
            IF FLt(lander.mFraction, FOne) /\ SlopeOk(lander.mPlaneNormal)
            THEN IF lander.mHitGroup = CollisionType_Actor THEN failed
                 ELSE [result |-> TRUE, position |-> lander.mEndPos,
                       remainingTime |-> FMul(remainingTime, FSub(FOne, tracer.mFraction))]
            ELSE failed
        Moved(tracer) ==
            IF FLt(tracer.mFraction, Epsilon) THEN failed
            ELSE Landed(tracer,
                        doTrace(tracer.mEndPos,
                                VSub(tracer.mEndPos, Vec3f(0, 0, sStepSizeDown)),
                                o.down.k, o.down.normal, o.down.group))
        Raised(stepper) ==
            IF FLt(stepper.mFraction, Epsilon) THEN failed
            ELSE Moved(doTrace(stepper.mEndPos, VAdd(stepper.mEndPos, toMove),
                               o.fwd, NormalWall, CollisionType_World))
    IN  Raised(doTrace(position, VAdd(position, Vec3f(0, 0, sStepSizeUp)),
                       o.up, Down, CollisionType_World))

\* faulty variant: the slide is stretched to the speed of the velocity
SlideVelocityRescaled(reflected, movelen, planeNormal) ==
    VScale(Normalized(slide(Normalized(reflect(reflected, planeNormal)), planeNormal)),
           movelen)

\* slide(reflectdir, planeNormal) * movelen, reflectdir being the normalized
\* reflection of the vector the code reflects: the velocity at a hit, the
\* normalized velocity at the swim ceiling
SlideVelocity(reflected, movelen, planeNormal) ==
    VScale(slide(Normalized(reflect(reflected, planeNormal)), planeNormal), movelen)

\* velocity normalized, times len world units
NormalizedTimes(velocity, len) == VScale(Normalized(velocity), FromInt(len))

\* nextpos = newPosition + velocity * remainingTime
NextPos(m) == VAdd(m.newPosition, VScale(m.velocity, m.remainingTime))

\* faulty variant: no swim ceiling
NoSwimCeiling(m) == FALSE

\* the condition of the swim ceiling branch
SwimCeiling(m) ==
    /\ FLt(m.newPosition[3], m.swimlevel)
    /\ ~m.isFlying
    /\ FLt(m.swimlevel, NextPos(m)[3])
    /\ FLe(m.newPosition[3], m.swimlevel)

\* (newPosition - nextpos).length2() > 0.0001: the literal is a double a
\* little above the float nearest to it, which no float lies between
Moving(m) == FLt(F(1, 10000), Length2(VSub(m.newPosition, NextPos(m))))

\* the condition of the resolution loop
LoopCondition(m) == m.iterations < sMaxIterations /\ FLt(F(1, 100), m.remainingTime)

\* slowFall = 1.f - max(0.f, min(1.f, magnitude * 0.005f))
SlowFall(magnitude) ==
    LET Min1(part) == IF FLt(FOne, part) THEN FOne ELSE part
        Max0(part) == IF FLt(FZero, part) THEN part ELSE FZero
    IN  FSub(FOne, Max0(Min1(FMul(FromInt(magnitude), F(5, 1000)))))

\* faulty variant: the gravity of a second, whatever the time step
GravityOfSecond(time) == F(-6272, 10)

\* time * -627.2f
GravityStep(time) == FMul(time, F(-6272, 10))

\* faulty variant: gravity builds up below the swim level too
FinalInertiaAboveWater(inertia, isOnGround, newPositionZ, swimlevel, isFlying, time, slowFall) ==
    IF isOnGround \/ isFlying THEN Zero3
    ELSE LET z == FAdd(inertia[3], FMul(time, F(-6272, 10)))
         IN  WithZ(inertia, IF FLt(z, FZero) THEN FMul(z, slowFall) ELSE z)

\* the inertial force move() stores at its end
FinalInertia(inertia, isOnGround, newPositionZ, swimlevel, isFlying, time, slowFall) ==
    LET Slowed(z) == WithZ(inertia, IF FLt(z, FZero) THEN FMul(z, slowFall) ELSE z)
    IN  IF isOnGround \/ FLt(newPositionZ, swimlevel) \/ isFlying THEN Zero3
        ELSE Slowed(FAdd(inertia[3], GravityStep(time)))

\* faulty variant: another actor is ground to stand on
IsGroundOrActor(tracer) ==
    FLt(tracer.mFraction, FOne) /\ SlopeOk(tracer.mPlaneNormal)

\* whether the ground probe found ground to stand on
IsGround(tracer) ==
    /\ FLt(tracer.mFraction, FOne)
    /\ SlopeOk(tracer.mPlaneNormal)
    /\ tracer.mHitGroup # CollisionType_Actor

\* faulty variant: the probe is 2 units long whether or not the actor was on
\* ground
GroundProbeShort(m, wasOnGround, a, offset) ==
    IF ~FLt(FZero, m.inertia[3]) /\ ~FLt(m.newPosition[3], m.swimlevel)
    THEN LET to == VSub(m.newPosition, Vec3f(0, 0, 2))
             tracer == doTrace(m.newPosition, to, a.k, a.normal, a.group)
         IN  IF IsGround(tracer)
             THEN [probed |-> TRUE, isOnGround |-> TRUE, inertia |-> m.inertia,
                   newPosition |-> IF ~m.isFlying
                                   THEN WithZ(m.newPosition, FAdd(tracer.mEndPos[3], FOne))
                                   ELSE m.newPosition]
             ELSE [probed |-> TRUE, isOnGround |-> FALSE, newPosition |-> m.newPosition,
                   inertia |->
                       IF /\ FLt(tracer.mFraction, FOne)
                          /\ tracer.mHitGroup = CollisionType_Actor
                          /\ FLt(Length2(WithZ(m.velocity, FZero)),
                                 FMul(FromInt(100), FromInt(100)))
                       THEN NormalizedTimes(WithZ(offset, FZero), 100)
                       ELSE m.inertia]
    ELSE [probed |-> FALSE, isOnGround |-> FALSE, newPosition |-> m.newPosition,
          inertia |-> m.inertia]

\* faulty variant: a rising actor probes for ground too
GroundProbeWhenRising(m, wasOnGround, a, offset) ==
    IF ~FLt(m.newPosition[3], m.swimlevel)
    THEN LET to == VSub(m.newPosition,
                        IF wasOnGround
                        THEN <<FZero, FZero, FAdd(FromInt(sStepSizeDown), FromInt(2))>>
                        ELSE Vec3f(0, 0, 2))
             tracer == doTrace(m.newPosition, to, a.k, a.normal, a.group)
         IN  IF IsGround(tracer)
             THEN [probed |-> TRUE, isOnGround |-> TRUE, inertia |-> m.inertia,
                   newPosition |-> IF ~m.isFlying
                                   THEN WithZ(m.newPosition, FAdd(tracer.mEndPos[3], FOne))
                                   ELSE m.newPosition]
             ELSE [probed |-> TRUE, isOnGround |-> FALSE, newPosition |-> m.newPosition,
                   inertia |->
                       IF /\ FLt(tracer.mFraction, FOne)
                          /\ tracer.mHitGroup = CollisionType_Actor
                          /\ FLt(Length2(WithZ(m.velocity, FZero)),
                                 FMul(FromInt(100), FromInt(100)))
                       THEN NormalizedTimes(WithZ(offset, FZero), 100)
                       ELSE m.inertia]
    ELSE [probed |-> FALSE, isOnGround |-> FALSE, newPosition |-> m.newPosition,
          inertia |-> m.inertia]

\* the ground probe after the loop: a answers its sweep, offset is the
\* actor's position minus the center of the actor it stands on
GroundProbe(m, wasOnGround, a, offset) ==
    LET Probed(tracer) ==
            IF IsGround(tracer)
            THEN [probed |-> TRUE, isOnGround |-> TRUE, inertia |-> m.inertia,
                  newPosition |-> IF ~m.isFlying
                                  THEN WithZ(m.newPosition, FAdd(tracer.mEndPos[3], FOne))
                                  ELSE m.newPosition]
            ELSE [probed |-> TRUE, isOnGround |-> FALSE, newPosition |-> m.newPosition,
                  inertia |->
                      IF /\ FLt(tracer.mFraction, FOne)
                         /\ tracer.mHitGroup = CollisionType_Actor
                         /\ FLt(Length2(WithZ(m.velocity, FZero)),
                                FMul(FromInt(100), FromInt(100)))
                      THEN NormalizedTimes(WithZ(offset, FZero), 100)
                      ELSE m.inertia]
    IN  IF ~FLt(FZero, m.inertia[3]) /\ ~FLt(m.newPosition[3], m.swimlevel)
        THEN Probed(doTrace(m.newPosition,
                            VSub(m.newPosition,
                                 IF wasOnGround
                                 THEN <<FZero, FZero, FAdd(FromInt(sStepSizeDown), FromInt(2))>>
                                 ELSE Vec3f(0, 0, 2)),
                            a.k, a.normal, a.group))
        ELSE [probed |-> FALSE, isOnGround |-> FALSE, newPosition |-> m.newPosition,
              inertia |-> m.inertia]

\* faulty variant: the per-frame data is reset before the early-out
EarlyOutAfterReset(actor, ref) ==
    [returned |-> TRUE, result |-> ref.pos,
     actor |-> [actor EXCEPT !.walkingOnWater = FALSE]]

\* the early-out of move() for a creature that is not mobile
EarlyOut(actor, ref) == [returned |-> TRUE, result |-> ref.pos, actor |-> actor]

\* faulty variant: the movement is not turned by the actor's rotation
NoClipUnturned(ref, movement, time) == VAdd(ref.pos, VScale(movement, time))

\* what move() returns for an actor whose collision mode is off
NoClip(ref, movement, time) ==
    VAdd(ref.pos, VScale(RotatePitchYaw(ref.pitch, ref.yaw, movement), time))

\* swimlevel = waterlevel + halfExtents.z() - (halfExtents.z() * 2 * fSwimHeightScale)
SwimLevel(waterlevel) ==
    FSub(FAdd(waterlevel, FromInt(halfExtentsZ)),
         FMul(FMul(FromInt(halfExtentsZ), FromInt(2)), F(fSwimHeightScalePct, 100)))

\* move() up to its resolution loop: either it returns at once, or its locals.
\* stormPct is the factor 1 - fStromWalkMult * (angle / 180) of the storm, in
\* percent, 100 when there is no storm.  The movement is turned by the pitch
\* too when the actor swims or flies.
MoveStart(ptr, actor, movement, time, isFlying, waterlevel, slowFall, ref, stormPct) ==
    LET Locals(position, swimlevel, inertia, velocity) ==
            [running |-> TRUE, ptr |-> ptr, movement |-> movement,
             time |-> time, isFlying |-> isFlying,
             waterlevel |-> waterlevel, swimlevel |-> swimlevel,
             slowFall |-> slowFall, position |-> position,
             inertia |-> inertia, velocity |-> velocity,
             origVelocity |-> velocity, newPosition |-> position,
             remainingTime |-> time, iterations |-> 0,
             planeNormal |-> NormalUp, stepped |-> FALSE]
        Blown(position, swimlevel, inertia, velocity) ==
            Locals(position, swimlevel, inertia,
                   IF stormPct = 100 THEN velocity
                   ELSE VScale(velocity, F(stormPct, 100)))
        Turned(position, swimlevel, swims, turned) ==
            Blown(position, swimlevel,
                  IF ~swims /\ FLt(FZero, turned[3]) THEN turned ELSE actor.inertialForce,
                  IF ~swims /\ ~actor.onGround
                  THEN VAdd(turned, actor.inertialForce) ELSE turned)
        Placed(position, swimlevel, turned) ==
            Turned(position, swimlevel, FLt(position[3], swimlevel) \/ isFlying, turned)
    IN  IF ~isMobile(ptr)
        THEN EarlyOut(actor, ref)
        ELSE IF ~actor.collisionMode
        THEN [returned |-> TRUE,
              result |-> NoClip(ref, movement, time),
              actor |-> [actor EXCEPT !.walkingOnWater = FALSE]]
        ELSE [returned |-> FALSE,
              actor |-> [actor EXCEPT !.walkingOnWater = FALSE],
              locals |->
                  Placed(WithZ(ref.pos, FAdd(ref.pos[3], FromInt(halfExtentsZ))),
                         SwimLevel(waterlevel),
                         QuatRotate(Quat(IF \/ FLt(FAdd(ref.pos[3], FromInt(halfExtentsZ)),
                                                    SwimLevel(waterlevel))
                                            \/ isFlying
                                         THEN ref.pitch ELSE 0, ref.yaw),
                                    movement))]

\* ------------------------------------------------------- PhysicsSystem
\* faulty variant: every call appends
QueueAppend(queue, ptr, movement) == Append(queue, [ptr |-> ptr, movement |-> movement])

\* faulty variant: a queued entity keeps its first vector
QueueKeepFirst(queue, ptr, movement) ==
    IF \E i \in DOMAIN queue : queue[i].ptr = ptr THEN queue
    ELSE Append(queue, [ptr |-> ptr, movement |-> movement])

\* queueObjectMovement on the queue: replace the entity's entry, or append
QueueInsert(queue, ptr, movement) ==
    IF \E i \in DOMAIN queue : queue[i].ptr = ptr
    THEN LET first == CHOOSE i \in DOMAIN queue :
                          /\ queue[i].ptr = ptr
                          /\ \A j \in 1 .. i - 1 : queue[j].ptr # ptr
         IN  [queue EXCEPT ![first].movement = movement]
    ELSE Append(queue, [ptr |-> ptr, movement |-> movement])

\* faulty variant: half a tick is enough
ReachesHalfTick(timeAccum) == FLe(Tick, FMul(FromInt(2), timeAccum))

\* the test of the accumulated time against the fixed tick
ReachesTick(timeAccum) == FLe(Tick, timeAccum)

\* faulty variant: the time step is cut down to a tick
TimeStepSaturated(timeAccum) == IF FLt(Tick, timeAccum) THEN Tick ELSE timeAccum

\* the time step applyQueuedMovement hands to MovementSolver::move
TimeStep(timeAccum) == timeAccum

\* faulty variant: only a drain clears the queue
QueueKeptBelowTick(queue, drained) == IF drained THEN <<>> ELSE queue

\* the movement queue when applyQueuedMovement returns
QueueAfterApply(queue, drained) == <<>>

\* faulty variant: a drain spends one tick of the accumulated time
TimeAccumRemainder(timeAccum) == FSub(timeAccum, Tick)

\* the accumulated time after a drain
TimeAccumAfterDrain(timeAccum) == FZero

\* faulty variant: static creatures are skipped like removed actors
ProcessesMobile(actors, entry) == actors[entry.ptr] # NoActor /\ isMobile(entry.ptr)

\* whether the loop over the queue processes an entry
Processes(actors, entry) == actors[entry.ptr] # NoActor


\* one collision object as a bag
One(colobj) == SetToBag({colobj})

\* std::map::insert: no effect when the key is in the map
MapInsert(map, key, record) ==
    IF map[key] = [registered |-> FALSE] THEN [map EXCEPT ![key] = record] ELSE map

\* what is left of the heap when a record goes out of reach
Leak(heap, unreachable, colobj) == IF unreachable THEN heap (+) One(colobj) ELSE heap

\* faulty variant: the Object is deleted while its collision object is attached
RemoveObjectAttached(dynamicsWorld, objects, ptr) == dynamicsWorld

\* remove(): the collision world after the block of the object map
RemoveObject(dynamicsWorld, objects, ptr) ==
    IF objects[ptr] # NoObject
    THEN dynamicsWorld (-) One(ObjectCollisionObject(ptr, objects[ptr].mesh))
    ELSE dynamicsWorld

\* remove(): the collision world after the block of the actor map; the
\* destructor of the Actor detaches its collision object
RemoveActor(dynamicsWorld, actors, ptr) ==
    IF actors[ptr] # NoActor
    THEN dynamicsWorld (-) One(ActorCollisionObject(ptr))
    ELSE dynamicsWorld

\* faulty variant: the collision shape of the instance is not tested
AddObjectUnchecked(ptr, mesh) ==
    /\ pc = "idle"
    /\ mObjects' = MapInsert(mObjects, ptr, [mesh |-> mesh])
    /\ mDynamicsWorld' = mDynamicsWorld (+) One(ObjectCollisionObject(ptr, mesh))
    /\ leaked' = Leak(leaked, mObjects[ptr] # NoObject, ObjectCollisionObject(ptr, mesh))
    /\ BagCardinality(leaked') <= MaxLeaked
    /\ UNCHANGED <<mActors, mHeightFields, queues, water, mLocalTime>>

AddObject(ptr, mesh) ==
    /\ pc = "idle"
    /\ IF ~hasCollisionShape(mesh)
       THEN UNCHANGED <<mObjects, mDynamicsWorld, leaked>>
       ELSE /\ mObjects' = MapInsert(mObjects, ptr, [mesh |-> mesh])
            /\ mDynamicsWorld' = mDynamicsWorld (+) One(ObjectCollisionObject(ptr, mesh))
            /\ leaked' = Leak(leaked, mObjects[ptr] # NoObject,
                              ObjectCollisionObject(ptr, mesh))
            /\ BagCardinality(leaked') <= MaxLeaked
    /\ UNCHANGED <<mActors, mHeightFields, queues, water, mLocalTime>>

AddActor(ptr) ==
    /\ pc = "idle"
    /\ mActors' = MapInsert(mActors, ptr, NewActor)
    /\ mDynamicsWorld' = mDynamicsWorld (+) One(ActorCollisionObject(ptr))
    /\ leaked' = Leak(leaked, Registered(ptr), ActorCollisionObject(ptr))
    /\ BagCardinality(leaked') <= MaxLeaked
    /\ UNCHANGED <<mObjects, mHeightFields, queues, water, mLocalTime>>

AddHeightField(cell) ==
    /\ pc = "idle"
    /\ mHeightFields' = [mHeightFields EXCEPT ![cell] = [cell |-> cell]]
    /\ mDynamicsWorld' = mDynamicsWorld (+) One(HeightFieldCollisionObject(cell))
    /\ leaked' = Leak(leaked, mHeightFields[cell] # NoHeightField,
                      HeightFieldCollisionObject(cell))
    /\ BagCardinality(leaked') <= MaxLeaked
    /\ UNCHANGED <<mActors, mObjects, queues, water, mLocalTime>>

RemoveHeightField(cell) ==
    /\ pc = "idle"
    /\ IF mHeightFields[cell] # NoHeightField
       THEN /\ mDynamicsWorld' = mDynamicsWorld (-) One(HeightFieldCollisionObject(cell))
            /\ mHeightFields' = [mHeightFields EXCEPT ![cell] = NoHeightField]
       ELSE UNCHANGED <<mHeightFields, mDynamicsWorld>>
    /\ UNCHANGED <<mActors, mObjects, leaked, queues, water, mLocalTime>>

Remove(ptr) ==
    /\ pc = "idle"
    /\ mDynamicsWorld' = RemoveActor(RemoveObject(mDynamicsWorld, mObjects, ptr),
                                     mActors, ptr)
    /\ mObjects' = [mObjects EXCEPT ![ptr] = NoObject]
    /\ mActors' = [mActors EXCEPT ![ptr] = NoActor]
    /\ UNCHANGED <<mHeightFields, leaked, queues, water, mLocalTime>>

\* PtrHolder::updatePtr: the entity of the holder after the call
HolderPtr(old, updated) == updated

\* updatePtr(): the block of the object map
updatePtrObjects(objects, dynamicsWorld, heap, old, updated) ==
    IF objects[old] # NoObject
    THEN LET obj == objects[old]
             erased == [objects EXCEPT ![old] = NoObject]
             colobj == ObjectCollisionObject(HolderPtr(old, updated), obj.mesh)
         IN  [map |-> MapInsert(erased, updated, obj),
              world |-> (dynamicsWorld (-) One(ObjectCollisionObject(old, obj.mesh)))
                            (+) One(colobj),
              heap |-> Leak(heap, erased[updated] # NoObject, colobj)]
    ELSE [map |-> objects, world |-> dynamicsWorld, heap |-> heap]

\* updatePtr(): the block of the actor map
updatePtrActors(actors, dynamicsWorld, heap, old, updated) ==
    IF actors[old] # NoActor
    THEN LET actor == actors[old]
             erased == [actors EXCEPT ![old] = NoActor]
             colobj == ActorCollisionObject(HolderPtr(old, updated))
         IN  [map |-> MapInsert(erased, updated, actor),
              world |-> (dynamicsWorld (-) One(ActorCollisionObject(old))) (+) One(colobj),
              heap |-> Leak(heap, erased[updated] # NoActor, colobj)]
    ELSE [map |-> actors, world |-> dynamicsWorld, heap |-> heap]

UpdatePtr(old, updated) ==
    /\ pc = "idle"
    /\ LET o == updatePtrObjects(mObjects, mDynamicsWorld, leaked, old, updated)
           a == updatePtrActors(mActors, o.world, o.heap, old, updated)
       IN  /\ mObjects' = o.map
           /\ mActors' = a.map
           /\ mDynamicsWorld' = a.world
           /\ leaked' = a.heap
    /\ BagCardinality(leaked') <= MaxLeaked
    /\ UNCHANGED <<mHeightFields, queues, water, mLocalTime>>

\* faulty variant: the old water plane stays attached
updateWaterKeepsOld(dynamicsWorld, object, enabled, height) ==
    IF ~enabled
    THEN [world |-> dynamicsWorld, object |-> object, removed |-> FALSE, added |-> FALSE]
    ELSE [world |-> dynamicsWorld (+) One(WaterCollisionObject(height)),
          object |-> WaterCollisionObject(height), removed |-> FALSE, added |-> TRUE]

\* updateWater(); removeCollisionObject has no effect on an object that is
\* not attached
updateWater(dynamicsWorld, object, enabled, height) ==
    LET removed == IF object # NoWaterObject
                   THEN dynamicsWorld (-) One(object) ELSE dynamicsWorld
    IN  IF ~enabled
        THEN [world |-> removed, object |-> object,
              removed |-> object # NoWaterObject, added |-> FALSE]
        ELSE [world |-> removed (+) One(WaterCollisionObject(height)),
              object |-> WaterCollisionObject(height),
              removed |-> object # NoWaterObject, added |-> TRUE]

\* faulty variant: enableWater rebuilds the plane on every call
EnableWaterAlways(enabled, current, height) == TRUE

\* the condition of enableWater
EnableWaterChanges(enabled, current, height) == ~enabled \/ current # height

\* a water call: changes is the condition under which it stores the new
\* state (enabled, height) and calls updateWater
WaterCall(changes, enabled, height) ==
    LET u == updateWater(mDynamicsWorld, mWaterCollisionObject, enabled, height)
    IN  /\ pc = "idle"
        /\ IF changes
           THEN /\ mWaterEnabled' = enabled
                /\ mWaterHeight' = height
                /\ mDynamicsWorld' = u.world
                /\ mWaterCollisionObject' = u.object
                /\ lastWaterCall' = [removed |-> u.removed, added |-> u.added]
           ELSE /\ UNCHANGED <<mWaterEnabled, mWaterHeight, mDynamicsWorld,
                               mWaterCollisionObject>>
                /\ lastWaterCall' = NoWaterCall
        /\ UNCHANGED <<mActors, mObjects, mHeightFields, leaked, queues, mLocalTime>>

DisableWater == WaterCall(mWaterEnabled, FALSE, mWaterHeight)

EnableWater(height) ==
    WaterCall(EnableWaterChanges(mWaterEnabled, mWaterHeight, height), TRUE, height)

SetWaterHeight(height) == WaterCall(mWaterHeight # height, mWaterEnabled, height)

\* ActorTracer::findGround from start to end, the collision library answering
\* fraction k/FracDen and the plane normal of the hit
findGround(start, end, k, normal) ==
    IF k >= FracDen
    THEN [mFraction |-> FOne, mEndPos |-> end, mPlaneNormal |-> NormalUp]
    ELSE [mFraction |-> F(k, FracDen),
          mEndPos |-> VAdd(VScale(VSub(end, start), F(k, FracDen)), start),
          mPlaneNormal |-> normal]

\* The heights traceDown is asked to search (60 and 100 units), what the
\* ground sweep is answered, and what the ray test is answered: no hit, or a
\* hit at fraction k/FracDen of the ray with its normal, level or steep.  The
\* ray runs down the axis of the swept shape, so it hits no earlier than the
\* sweep.
MaxHeights == {FromInt(60), FromInt(100)}
GroundAnswers ==
    {[k |-> FracDen, normal |-> NormalUp]}
    \cup [k : 0 .. FracDen - 1, normal : {NormalUp, NormalSteep}]
RayAnswers(sweep) ==
    {[hasHit |-> FALSE, k |-> FracDen, normal |-> NormalUp]}
    \cup [hasHit : {TRUE}, k : sweep.k .. FracDen - 1, normal : {NormalUp, NormalSteep}]

\* m_hitPointWorld of the closest hit of the ray from position down by maxHeight:
\* the collision library interpolates, from * (1 - fraction) + to * fraction
rayHitPoint(position, maxHeight, ray) ==
    LET to == VSub(position, <<FZero, FZero, maxHeight>>)
        rt == F(ray.k, FracDen)
    IN  VAdd(VScale(position, FSub(FOne, rt)), VScale(to, rt))

\* faulty variant: the ray test is left out
traceDownSweepOnly(position, actor, maxHeight, sweep, ray) ==
    LET tracer == findGround(position, VSub(position, <<FZero, FZero, maxHeight>>),
                             sweep.k, sweep.normal)
    IN  IF FLe(FOne, tracer.mFraction)
        THEN [actor |-> [actor EXCEPT !.onGround = FALSE], result |-> position]
        ELSE [actor |-> [actor EXCEPT !.onGround = SlopeOk(tracer.mPlaneNormal)],
              result |-> tracer.mEndPos]

\* MovementSolver::traceDown: the actor after the call and the value returned
traceDown(position, actor, maxHeight, sweep, ray) ==
    LET Traced(tracer, hitPoint) ==
            IF FLe(FOne, tracer.mFraction)
            THEN [actor |-> [actor EXCEPT !.onGround = FALSE], result |-> position]
            ELSE IF /\ ray.hasHit
                    /\ \/ FLt(FromInt(30), Length(VSub(hitPoint, tracer.mEndPos)))
                       \/ ~SlopeOk(tracer.mPlaneNormal)
            THEN [actor |-> [actor EXCEPT !.onGround = SlopeOk(ray.normal)],
                  result |-> VAdd(hitPoint, Vec3f(0, 0, 1))]
            ELSE [actor |-> [actor EXCEPT !.onGround = SlopeOk(tracer.mPlaneNormal)],
                  result |-> tracer.mEndPos]
    IN  Traced(findGround(position, VSub(position, <<FZero, FZero, maxHeight>>),
                          sweep.k, sweep.normal),
               rayHitPoint(position, maxHeight, ray))

\* PhysicsSystem::traceDown(ptr, maxHeight) with the answers of the
\* collision world to the ground sweep and to the ray test
TraceDownAnswered(ptr, maxHeight, sweep, ray) ==
    /\ pc = "idle"
    /\ IF ~Registered(ptr)
       THEN /\ lastTraceDown' = [ptr |-> ptr, maxHeight |-> maxHeight, sweep |-> sweep,
                                   ray |-> ray, result |-> world.ref[ptr].pos]
            /\ UNCHANGED mActors
       ELSE \E down \in {traceDown(world.ref[ptr].pos, mActors[ptr], maxHeight, sweep, ray)} :
                /\ lastTraceDown' = [ptr |-> ptr, maxHeight |-> maxHeight, sweep |-> sweep,
                                       ray |-> ray, result |-> down.result]
                /\ mActors' = [mActors EXCEPT ![ptr] = down.actor]
    /\ UNCHANGED <<mMovementQueue, mMovementResults, mTimeAccum, world, pc, iter, mv,
                   moveCalls, discarded, queuedOrder, lastQueued, registry, water, mLocalTime>>

TraceDown(ptr, maxHeight) ==
    \E sweep \in GroundAnswers : \E ray \in RayAnswers(sweep) :
        TraceDownAnswered(ptr, maxHeight, sweep, ray)

\* faulty variant: the value returned is the one before the flip
toggleReturnsOld(actors) ==
    IF actors[PlayerPtr] # NoActor
    THEN [actors |-> [actors EXCEPT ![PlayerPtr].collisionMode = ~@],
          result |-> actors[PlayerPtr].collisionMode]
    ELSE [actors |-> actors, result |-> FALSE]

\* toggleCollisionMode(): the actor map after the call and the value returned
toggleCollisionMode(actors) ==
    IF actors[PlayerPtr] # NoActor
    THEN LET cmode == ~actors[PlayerPtr].collisionMode
         IN  [actors |-> [actors EXCEPT ![PlayerPtr].collisionMode = cmode],
              result |-> cmode]
    ELSE [actors |-> actors, result |-> FALSE]

ToggleCollisionMode ==
    /\ pc = "idle"
    /\ mActors' = toggleCollisionMode(mActors).actors
    /\ UNCHANGED <<queues, registry, water, mLocalTime>>

QueueObjectMovement(ptr, movement) ==
    /\ pc = "idle"
    /\ mMovementQueue' = QueueInsert(mMovementQueue, ptr, movement)
    /\ queuedOrder' = IF \E i \in DOMAIN queuedOrder : queuedOrder[i] = ptr
                      THEN queuedOrder ELSE Append(queuedOrder, ptr)
    /\ lastQueued' = [lastQueued EXCEPT ![ptr] = movement]
    /\ UNCHANGED <<mActors, mMovementResults, mTimeAccum, world, pc, iter, mv, moveCalls,
                   discarded, registry, water, mLocalTime, lastTraceDown>>

ClearQueuedMovement ==
    /\ pc = "idle"
    /\ mMovementQueue' = <<>>
    /\ queuedOrder' = <<>>
    /\ lastQueued' = [p \in Ptrs |-> NoVector]
    /\ UNCHANGED <<mActors, mMovementResults, mTimeAccum, world, pc, iter, mv, moveCalls,
                   discarded, registry, water, mLocalTime, lastTraceDown>>

\* applyQueuedMovement(dt) up to its loop over the queue; all of it when the
\* accumulated time stays below the tick
ApplyQueuedMovement(dt) ==
    /\ pc = "idle"
    /\ mMovementResults' = <<>>
    /\ mTimeAccum' = FAdd(mTimeAccum, dt)
    /\ moveCalls' = <<>>
    /\ IF ReachesTick(FAdd(mTimeAccum, dt))
       THEN /\ pc' = "drain"
            /\ iter' = 1
            /\ discarded' = FALSE
            /\ UNCHANGED <<mMovementQueue, queuedOrder, lastQueued>>
       ELSE /\ mMovementQueue' = QueueAfterApply(mMovementQueue, FALSE)
            /\ discarded' = (mMovementQueue # <<>> /\ mMovementQueue' = <<>>)
            /\ queuedOrder' = IF mMovementQueue' = <<>> THEN <<>> ELSE queuedOrder
            /\ lastQueued' = IF mMovementQueue' = <<>> THEN [p \in Ptrs |-> NoVector]
                             ELSE lastQueued
            /\ UNCHANGED <<pc, iter>>
    /\ UNCHANGED <<mActors, world, mv, registry, water, mLocalTime, lastTraceDown>>

\* applyQueuedMovement(), lines 957-960: a result below the old height is
\* added to the fall height of the entity's creature stats
addToFallHeight(w, ptr, newpos, oldHeight) ==
    LET heightDiff == FSub(newpos[3], oldHeight)
    IN  IF FLt(heightDiff, FZero)
        THEN [w EXCEPT !.fallHeight[ptr] = FSub(@, heightDiff)]
        ELSE w

\* One pass of the loop over the queue, up to the resolution loop of move().
\* A cell without water has the water level -FLT_MAX, and move() resets the up
\* channel of the entity's movement settings in the game world (line 274).
DrainEntry ==
    /\ pc = "drain"
    /\ iter <= Len(mMovementQueue)
    /\ LET entry == mMovementQueue[iter]
           ref == world.ref[entry.ptr]
       IN  IF ~Processes(mActors, entry)
           THEN /\ iter' = iter + 1
                /\ UNCHANGED <<mActors, mMovementResults, pc, mv, moveCalls, world>>
           ELSE \E start \in
                    {MoveStart(entry.ptr,
                               [mActors[entry.ptr] EXCEPT
                                    !.canWaterWalk = /\ ref.waterWalking
                                                     /\ ref.cellHasWater
                                                     /\ ~isUnderwater(ref)],
                               entry.movement, TimeStep(mTimeAccum), ref.flying,
                               IF ref.cellHasWater THEN ref.waterLevel ELSE <<-16777215, 104>>,
                               SlowFall(ref.slowFallMagnitude), ref, world.stormPct)} :
                    /\ mActors' = [mActors EXCEPT ![entry.ptr] = start.actor]
                    /\ moveCalls' = Append(moveCalls,
                                           [ptr |-> entry.ptr, movement |-> entry.movement,
                                            time |-> TimeStep(mTimeAccum), probe |-> NoProbe,
                                            newPosition |-> NoVector])
                    /\ IF start.returned
                       THEN /\ mMovementResults' =
                                   Append(mMovementResults,
                                          [ptr |-> entry.ptr, pos |-> start.result])
                            /\ world' = addToFallHeight(world, entry.ptr, start.result,
                                                        ref.pos[3])
                            /\ iter' = iter + 1
                            /\ UNCHANGED <<pc, mv>>
                       ELSE /\ mv' = start.locals
                            /\ pc' = IF LoopCondition(start.locals) THEN "loop" ELSE "probe"
                            /\ world' = [world EXCEPT !.jump[entry.ptr] = 0]
                            /\ UNCHANGED <<mMovementResults, iter>>
    /\ UNCHANGED <<mMovementQueue, mTimeAccum, discarded, queuedOrder, lastQueued,
                   registry, water, mLocalTime, lastTraceDown>>

solverFrame == <<mActors, mMovementQueue, mMovementResults, mTimeAccum, world, iter,
                 moveCalls, discarded, queuedOrder, lastQueued, registry, water, mLocalTime, lastTraceDown>>

\* faulty variant: the iteration is not counted
ContinueUncounted(m) ==
    /\ mv' = m
    /\ pc' = IF LoopCondition(m) THEN "loop" ELSE "probe"

\* the end of an iteration: the loop goes on, or move() reaches its ground probe
Continue(m) ==
    LET next == [m EXCEPT !.iterations = @ + 1]
    IN  /\ mv' = next
        /\ pc' = IF LoopCondition(next) THEN "loop" ELSE "probe"

Break(m) == mv' = m /\ pc' = "probe"

\* an iteration of the resolution loop up to the primary sweep
LoopSweep ==
    /\ pc = "loop"
    /\ IF SwimCeiling(mv)
       THEN Continue([mv EXCEPT !.velocity =
                          SlideVelocity(Normalized(mv.velocity), Length(mv.velocity), Down)])
       ELSE IF Moving(mv)
       THEN \E a \in Sweeps(world.scene) :
                \E tracer \in {doTrace(mv.newPosition, NextPos(mv), a.k, a.normal, a.group)} :
                    IF FLe(FOne, tracer.mFraction)
                    THEN Break([mv EXCEPT !.newPosition = tracer.mEndPos])
                    ELSE /\ mv' = [mv EXCEPT !.planeNormal = tracer.mPlaneNormal]
                         /\ pc' = "step1"
       ELSE Break(mv)
    /\ UNCHANGED solverFrame

\* the position after a successful stepMove
AfterStep(m, step) ==
    [m EXCEPT !.newPosition =
                  IF /\ isPureWaterCreature(m.ptr)
                     /\ FLt(m.waterlevel, FAdd(step.position[3], FromInt(halfExtentsZ)))
                  THEN m.newPosition ELSE step.position,
              !.remainingTime = step.remainingTime,
              !.stepped = @ \/ ~(/\ isPureWaterCreature(m.ptr)
                                 /\ FLt(m.waterlevel, FAdd(step.position[3], FromInt(halfExtentsZ))))]

\* faulty variant: the slide velocity may point upward on land
SlideUnclamped(m) ==
    LET newVelocity == SlideVelocity(m.velocity, Length(m.velocity), m.planeNormal)
    IN  IF FLe(Length2(VSub(newVelocity, m.velocity)), F(1, 100))
        THEN [break |-> TRUE, m |-> m]
        ELSE IF FLe(Dot(m.velocity, m.origVelocity), FZero)
        THEN [break |-> TRUE, m |-> m]
        ELSE [break |-> FALSE, m |-> [m EXCEPT !.velocity = newVelocity]]

\* the slide after both stepMove calls failed.  The literal 0.01 of its first
\* test is a double a little above the float nearest to it, so the test is
\* length2 <= 0.01f.
Slide(m) ==
    LET Slid(newVelocity) ==
            IF FLe(Length2(VSub(newVelocity, m.velocity)), F(1, 100))
            THEN [break |-> TRUE, m |-> m]
            ELSE IF FLe(Dot(m.velocity, m.origVelocity), FZero)
            THEN [break |-> TRUE, m |-> m]
            ELSE [break |-> FALSE,
                  m |-> [m EXCEPT !.velocity =
                             IF ~(FLt(m.newPosition[3], m.swimlevel) \/ m.isFlying)
                             THEN WithZ(newVelocity,
                                        IF FLt(newVelocity[3], FZero) THEN newVelocity[3]
                                        ELSE FZero)
                             ELSE newVelocity]]
    IN  Slid(SlideVelocity(m.velocity, Length(m.velocity), m.planeNormal))

\* the first stepMove call of an iteration
StepMoveFirst ==
    /\ pc = "step1"
    /\ \E o \in Steps(world.scene) :
           \E step \in {stepMove(mv.newPosition, VScale(mv.velocity, mv.remainingTime),
                                 mv.remainingTime, o)} :
               IF step.result THEN Continue(AfterStep(mv, step))
               ELSE mv' = mv /\ pc' = "step2"
    /\ UNCHANGED solverFrame

\* the second stepMove call, and the slide when it fails too
StepMoveRetry ==
    /\ pc = "step2"
    /\ \E o \in Steps(world.scene) :
           \E step \in {stepMove(mv.newPosition, NormalizedTimes(mv.velocity, 10),
                                 mv.remainingTime, o)} :
               IF step.result THEN Continue(AfterStep(mv, step))
               ELSE \E slid \in {Slide(mv)} :
                        IF slid.break THEN Break(slid.m) ELSE Continue(slid.m)
    /\ UNCHANGED solverFrame

\* move() after its loop, and the rest of the pass of the loop over the queue
GroundProbeAndGravity ==
    /\ pc = "probe"
    /\ \E a \in Probes(world.scene), offset \in Offsets(world.scene) :
           \E probe \in {GroundProbe(mv, mActors[mv.ptr].onGround, a, offset)} :
               \E newpos \in {WithZ(probe.newPosition,
                                     FSub(probe.newPosition[3], FromInt(halfExtentsZ)))} :
                   /\ mActors' =
                          [mActors EXCEPT ![mv.ptr] =
                              [@ EXCEPT !.inertialForce =
                                            FinalInertia(probe.inertia, probe.isOnGround,
                                                         probe.newPosition[3], mv.swimlevel,
                                                         mv.isFlying, mv.time, mv.slowFall),
                                        !.onGround = probe.isOnGround]]
                   /\ mMovementResults' =
                          Append(mMovementResults, [ptr |-> mv.ptr, pos |-> newpos])
                   /\ world' = addToFallHeight(world, mv.ptr, newpos,
                                               world.ref[mv.ptr].pos[3])
                   /\ moveCalls' = [moveCalls EXCEPT
                                       ![Len(moveCalls)].probe =
                                           IF probe.probed
                                           THEN [performed |-> TRUE, k |-> a.k,
                                                 normal |-> a.normal, group |-> a.group]
                                           ELSE NoProbe,
                                       ![Len(moveCalls)].newPosition = probe.newPosition]
    /\ iter' = iter + 1
    /\ pc' = "drain"
    /\ mv' = NoMove
    /\ UNCHANGED <<mMovementQueue, mTimeAccum, discarded, queuedOrder, lastQueued,
                   registry, water, mLocalTime, lastTraceDown>>

\* applyQueuedMovement after its loop over the queue
DrainEnd ==
    /\ pc = "drain"
    /\ iter > Len(mMovementQueue)
    /\ mTimeAccum' = TimeAccumAfterDrain(mTimeAccum)
    /\ mMovementQueue' = QueueAfterApply(mMovementQueue, TRUE)
    /\ queuedOrder' = IF mMovementQueue' = <<>> THEN <<>> ELSE queuedOrder
    /\ lastQueued' = IF mMovementQueue' = <<>> THEN [p \in Ptrs |-> NoVector] ELSE lastQueued
    /\ pc' = "idle"
    /\ iter' = 0
    /\ moveCalls' = <<>>
    /\ UNCHANGED <<mActors, mMovementResults, world, mv, discarded, registry, water, mLocalTime, lastTraceDown>>

\* ------------------------------------------------------ specifications
\* The facade in one game world, which adds an entity that is not registered
\* and registers actors only.  The player stands on dry land, the fish
\* swims just below the swim level, the idol is a static creature; every
\* actor touches the floor, and a step up is blocked or lands on a ledge.
\* the up channel of each entity's movement settings as the game's input
\* left it, and the fall heights of the creature stats
NoFall == [p \in Ptrs |-> FZero]
FlatWorld ==
    [ref |-> [p \in Ptrs |->
                 IF p = "fish"
                 THEN RefData(<<FZero, FZero, F(-1155, 10)>>, 0, 0, FALSE, 0, FALSE,
                              TRUE, FZero)
                 ELSE RefData(Zero3, 0, 0, FALSE, 0, FALSE, FALSE, FZero)],
     stormPct |-> 100, scene |-> "flat", jump |-> [p \in Ptrs |-> 1], fallHeight |-> NoFall]

NoneQueued == [p \in Ptrs |-> NoVector]

Init ==
    /\ mActors = [p \in Ptrs |-> NoActor]
    /\ mMovementQueue = <<>>
    /\ mMovementResults = <<>>
    /\ mTimeAccum = FZero
    /\ world = FlatWorld
    /\ pc = "idle"
    /\ iter = 0
    /\ mv = NoMove
    /\ moveCalls = <<>>
    /\ discarded = FALSE
    /\ queuedOrder = <<>>
    /\ lastQueued = NoneQueued
    /\ mObjects = [p \in Ptrs |-> NoObject]
    /\ mHeightFields = [c \in Cells |-> NoHeightField]
    /\ mDynamicsWorld = EmptyBag
    /\ leaked = EmptyBag
    /\ mWaterEnabled = FALSE
    /\ mWaterHeight = 0
    /\ mWaterCollisionObject = NoWaterObject
    /\ lastWaterCall = NoWaterCall
    /\ lastTraceDown = NoTraceDown
    /\ mLocalTime = FZero

Next ==
    \/ \E ptr \in Ptrs : ~Registered(ptr) /\ AddActor(ptr)
    \/ \E ptr \in Ptrs : Remove(ptr)
    \/ ToggleCollisionMode
    \/ \E ptr \in Ptrs, movement \in {Zero3, Vec3f(0, 120, 0)} :
          QueueObjectMovement(ptr, movement)
    \/ ClearQueuedMovement
    \/ \E dt \in DtValues : ApplyQueuedMovement(dt)
    \/ DrainEntry
    \/ LoopSweep
    \/ StepMoveFirst
    \/ StepMoveRetry
    \/ GroundProbeAndGravity
    \/ DrainEnd

Spec == Init /\ [][Next]_vars

\* The solver on one queued actor, in every game world of the sets below:
\* the actor stands on dry land, or swims 1.5 units below, 0.3 units below
\* or exactly at the swim level (water at height 0), in every scene.  Its
\* stored inertia is none, that of one tick of free fall, or that of a jump
\* forward.  The game may have set the walking-on-water flag of an actor whose
\* move() call returns early.
SolverPositions ==
    {Zero3, <<FZero, FZero, F(-1167, 10)>>, <<FZero, FZero, F(-1155, 10)>>,
     <<FZero, FZero, F(-1152, 10)>>}

\* the game worlds: unturned actors in calm weather, and turned actors in
\* calm weather and in a storm
SolverWorlds ==
    [pos : SolverPositions, rot : {<<0, 0>>}, flying : BOOLEAN,
     slowFall : {0, 100}, storm : {100}]
    \cup [pos : SolverPositions, rot : {<<1, 1>>}, flying : {FALSE},
          slowFall : {0}, storm : {100, 50}]

SolverInitWith(movements, scenes) ==
    \E subject \in Ptrs, w \in SolverWorlds, scene \in scenes,
       movement \in movements, onGround \in BOOLEAN, collides \in BOOLEAN,
       inertia \in {Zero3, <<FZero, FZero, GravityStep(Tick)>>, Vec3f(0, 30, 20)},
       accum \in {FZero, F(1, 120)}, walking \in BOOLEAN :
        /\ walking => (~collides \/ ~isMobile(subject))
        /\ mActors = [p \in Ptrs |->
                         IF p = subject
                         THEN [NewActor EXCEPT !.onGround = onGround,
                                               !.inertialForce = inertia,
                                               !.collisionMode = collides,
                                               !.walkingOnWater = walking]
                         ELSE NoActor]
        /\ mMovementQueue = <<[ptr |-> subject, movement |-> movement]>>
        /\ mMovementResults = <<>>
        /\ mTimeAccum = accum
        /\ world = [ref |-> [p \in Ptrs |->
                                RefData(w.pos, w.rot[1], w.rot[2], w.flying, w.slowFall,
                                        FALSE, TRUE, FZero)],
                    stormPct |-> w.storm, scene |-> scene,
                    jump |-> [p \in Ptrs |-> 1], fallHeight |-> NoFall]
        /\ pc = "idle"
        /\ iter = 0
        /\ mv = NoMove
        /\ moveCalls = <<>>
        /\ discarded = FALSE
        /\ queuedOrder = <<subject>>
        /\ lastQueued = [NoneQueued EXCEPT ![subject] = movement]
        /\ mObjects = [p \in Ptrs |-> NoObject]
        /\ mHeightFields = [c \in Cells |-> NoHeightField]
        /\ mDynamicsWorld = One(ActorCollisionObject(subject))
        /\ leaked = EmptyBag
        /\ mWaterEnabled = FALSE
        /\ mWaterHeight = 0
        /\ mWaterCollisionObject = NoWaterObject
        /\ lastWaterCall = NoWaterCall
        /\ lastTraceDown = NoTraceDown
        /\ mLocalTime = FZero

SolverInit ==
    SolverInitWith({Zero3, Vec3f(0, 120, 0), Vec3f(0, 60, 90), Vec3f(0, 0, 18)}, Scenes)

SolverNext ==
    \/ \E dt \in DtValues : ApplyQueuedMovement(dt)
    \/ DrainEntry
    \/ LoopSweep
    \/ StepMoveFirst
    \/ StepMoveRetry
    \/ GroundProbeAndGravity
    \/ DrainEnd

SolverSpec == SolverInit /\ [][SolverNext]_vars

\* The solver where steps are tried: before stairs and before another actor,
\* in calm weather, at the start of a tick.
StepInit ==
    /\ SolverInit
    /\ world.scene \in {"stairs", "crowd"}
    /\ world.stormPct = 100
    /\ mTimeAccum = FZero

StepSpec == StepInit /\ [][SolverNext]_vars

\* The solver on jumps: a weak jump (5 units/s up), a jump forward and no
\* movement, over a floor, in the open and before a wall.
JumpInit ==
    SolverInitWith({Vec3f(0, 0, 5), Vec3f(0, 60, 90), Zero3}, {"floor", "open", "wall"})

JumpSpec == JumpInit /\ [][SolverNext]_vars

\* The registrations alone: two entities, each as an object and as an actor,
\* the heightfields of two cells and the water, no movement queued.
RegistryPtrs == {"player", "idol"}

RegistryNext ==
    \/ \E ptr \in RegistryPtrs, mesh \in Meshes : AddObject(ptr, mesh)
    \/ \E ptr \in RegistryPtrs : AddActor(ptr)
    \/ \E cell \in Cells : AddHeightField(cell)
    \/ \E ptr \in RegistryPtrs : Remove(ptr)
    \/ \E cell \in Cells : RemoveHeightField(cell)
    \/ \E old \in RegistryPtrs, updated \in RegistryPtrs : UpdatePtr(old, updated)
    \/ ToggleCollisionMode
    \/ \E height \in WaterHeights : EnableWater(height)
    \/ DisableWater
    \/ \E height \in WaterHeights : SetWaterHeight(height)

RegistrySpec == Init /\ [][RegistryNext]_vars

\* traceDown alone, in the game world of the facade: actors are added and
\* removed, and each traceDown call is answered in every way.
TraceDownNext ==
    \/ \E ptr \in Ptrs : ~Registered(ptr) /\ AddActor(ptr)
    \/ \E ptr \in Ptrs : Remove(ptr)
    \/ \E ptr \in Ptrs, maxHeight \in MaxHeights : TraceDown(ptr, maxHeight)

TraceDownSpec == Init /\ [][TraceDownNext]_vars

\* ------------------------------------------------ animated compound shapes
\* stepSimulation, updateScale, updateRotation and updatePosition.  The Object
\* of a mesh with animated shapes carries, next to its mesh, the local scaling
\* of its compound shape, the children of the compound (origin and basis of
\* the child transform, local scaling and half extents of the child shape),
\* mAnimatedShapes as the list of (recIndex, shapeIndex) in the order of the
\* map, the world transform of its collision object (an origin and a rotation
\* of whole quarter turns about z) and the AABB that the collision world holds
\* for its collision object.  The shapes are in fixed point: lengths in
\* hundredths of a world unit (cu), scalings in percent, divisions truncating
\* towards zero; rotations of scene nodes are osg matrices: m[j][i] is
\* matrix(j-1, i-1).
Scale == 10 * 10              \* cu per world unit
Quot(a, b) == IF a >= 0 THEN a \div b ELSE -((-a) \div b)

\* what FindRecIndexVisitor and computeLocalToWorld answer for one recIndex:
\* when the node is found, the local-to-world matrix of its path without
\* the root, given by its translation (cu), rotation and scale (percent)
\* The scene graphs of an entity hold what is found for recIndex 1 and 2, the
\* animated nodes of the mesh.
SceneGraphs ==
    [{1, 2} ->
        { [found |-> TRUE, trans |-> <<50 * Scale, 0, 0>>,
           rot |-> <<<<0, 1, 0>>, <<-1, 0, 0>>, <<0, 0, 1>>>>, scale |-> <<100, 100, 100>>],
          [found |-> TRUE, trans |-> <<0, 0, 20 * Scale>>,
           rot |-> <<<<1, 0, 0>>, <<0, 1, 0>>, <<0, 0, 1>>>>, scale |-> <<200, 100, 100>>],
          [found |-> FALSE] }]

\* the compound shape of the animated mesh before any scaling: two animated
\* panels and a fixed frame
BindChildren ==
    LET identity == <<<<1, 0, 0>>, <<0, 1, 0>>, <<0, 0, 1>>>>
    IN  << [origin |-> <<0, 0, 0>>, basis |-> identity, scaling |-> <<100, 100, 100>>,
            halfExtents |-> <<10 * Scale, 2 * Scale, 20 * Scale>>],
           [origin |-> <<0, 40 * Scale, 0>>, basis |-> identity, scaling |-> <<100, 100, 100>>,
            halfExtents |-> <<10 * Scale, 2 * Scale, 20 * Scale>>],
           [origin |-> <<0, 0, -30 * Scale>>, basis |-> identity, scaling |-> <<100, 100, 100>>,
            halfExtents |-> <<30 * Scale, 30 * Scale, 5 * Scale>>] >>

\* btVector3 * btVector3, the second in percent
VMulPct(u, v) == <<Quot(u[1] * v[1], 100), Quot(u[2] * v[2], 100), Quot(u[3] * v[3], 100)>>

\* updateSingleAabb: the AABB of the compound in the frame of the Object, from
\* the transforms and the scalings of the children; Extent is the half
\* extents of a child along the axes of the compound
CompoundAabb(children) ==
    LET Abs(x) == IF x < 0 THEN -x ELSE x
        MinOf(S) == CHOOSE x \in S : \A y \in S : x <= y
        MaxOf(S) == CHOOSE x \in S : \A y \in S : x >= y
        Extent(child) ==
            LET scaled == VMulPct(child.halfExtents, child.scaling)
            IN  [i \in 1 .. 3 |-> Abs(child.basis[i][1]) * scaled[1]
                                      + Abs(child.basis[i][2]) * scaled[2]
                                      + Abs(child.basis[i][3]) * scaled[3]]
    IN  [min |-> [i \in 1 .. 3 |->
                     MinOf({children[c].origin[i] - Extent(children[c])[i] :
                                c \in DOMAIN children})],
         max |-> [i \in 1 .. 3 |->
                     MaxOf({children[c].origin[i] + Extent(children[c])[i] :
                                c \in DOMAIN children})]]

\* The AABB of the collision object in the world: the box of the compound
\* turned by the rotation of the world transform and moved to its origin
WorldAabb(origin, rotation, children) ==
    LET box == CompoundAabb(children)
        Turn(v) == CASE rotation % 4 = 0 -> v
                     [] rotation % 4 = 1 -> <<-v[2], v[1], v[3]>>
                     [] rotation % 4 = 2 -> <<-v[1], -v[2], v[3]>>
                     [] OTHER            -> <<v[2], -v[1], v[3]>>
        a == Turn(box.min)
        b == Turn(box.max)
    IN  [min |-> [i \in 1 .. 3 |-> origin[i] + (IF a[i] < b[i] THEN a[i] ELSE b[i])],
         max |-> [i \in 1 .. 3 |-> origin[i] + (IF a[i] < b[i] THEN b[i] ELSE a[i])]]

\* updateSingleAabb on the collision object of an Object
updateSingleAabb(object) ==
    IF "aabb" \in DOMAIN object
    THEN [object EXCEPT !.aabb = WorldAabb(object.origin, object.rotation, object.children)]
    ELSE object

\* Object::setScale: btCompoundShape::setLocalScaling scales the origin and
\* the local scaling of each child by scale / the old local scaling; the
\* scaling of a shape that is no compound is not part of the Object here
setScale(object, scale) ==
    IF "children" \notin DOMAIN object
    THEN object
    ELSE LET old == object.localScaling
             Rescaled(v) == <<Quot(v[1] * scale, old[1]), Quot(v[2] * scale, old[2]),
                              Quot(v[3] * scale, old[3])>>
         IN  [object EXCEPT
                 !.localScaling = <<scale, scale, scale>>,
                 !.children = [c \in DOMAIN object.children |->
                                  [object.children[c] EXCEPT !.origin = Rescaled(@),
                                                             !.scaling = Rescaled(@)]]]

\* Object::Object for the animated mesh: setScale(scale) on the shape
\* instance, setRotation and setOrigin on the collision object;
\* addCollisionObject computes the AABB
AnimatedObject(mesh, scale, rotation, origin) ==
    updateSingleAabb(
        setScale([mesh |-> mesh, localScaling |-> <<100, 100, 100>>,
                  children |-> BindChildren,
                  mAnimatedShapes |-> << [recIndex |-> 1, shapeIndex |-> 0],
                                         [recIndex |-> 2, shapeIndex |-> 1] >>,
                  rotation |-> rotation, origin |-> origin,
                  aabb |-> CompoundAabb(BindChildren)], scale))

\* Object::animateCollisionShapes: the Object after the call; the meshes of
\* addObject have no animated shapes.  Loop is the for loop from the i-th
\* entry of the map on: the children it leaves, and whether it ran to its
\* end; the basis of the transform is set by getBasis()[i][j] = matrix(j,i)
animateCollisionShapes(object, scene) ==
    LET RECURSIVE Loop(_, _)
        Loop(i, children) ==
            IF i > Len(object.mAnimatedShapes)
            THEN [children |-> children, completed |-> TRUE]
            ELSE LET recIndex == object.mAnimatedShapes[i].recIndex
                     shapeIndex == object.mAnimatedShapes[i].shapeIndex
                     visitor == scene[recIndex]
                 IN  IF ~visitor.found
                     THEN [children |-> children, completed |-> FALSE]
                     ELSE Loop(i + 1,
                              [children EXCEPT ![shapeIndex + 1] =
                                  [@ EXCEPT
                                      !.origin = VMulPct(visitor.trans, object.localScaling),
                                      !.basis = [k \in 1 .. 3 |-> [j \in 1 .. 3 |->
                                                    visitor.rot[j][k]]],
                                      !.scaling = VMulPct(object.localScaling,
                                                          visitor.scale)]])
    IN  IF "mAnimatedShapes" \notin DOMAIN object \/ object.mAnimatedShapes = <<>>
        THEN object
        ELSE LET loop == Loop(1, object.children)
             IN  IF loop.completed
                 THEN updateSingleAabb([object EXCEPT !.children = loop.children])
                 ELSE [object EXCEPT !.children = loop.children]

\* stepSimulation(dt): every Object is animated from the scene graph of its
\* entity (an entity without one in scenes has no animated node), then the
\* collision world is stepped with at most one substep of 1/60 s: it adds dt
\* to its local time and, when that reaches the fixed step, simulates and
\* refreshes the AABB of every collision object
StepSimulation(dt, scenes) ==
    LET animated == [p \in Ptrs |->
                        IF mObjects[p] = NoObject THEN NoObject
                        ELSE animateCollisionShapes(
                                 mObjects[p],
                                 IF p \in DOMAIN scenes THEN scenes[p]
                                 ELSE [recIndex \in {1, 2} |-> [found |-> FALSE]])]
        localTime == FAdd(mLocalTime, dt)
        \* the conversion of a float to int, which truncates
        Trunc(x) ==
            IF x[2] >= 0 THEN x[1] * 2^(x[2])
            ELSE IF x[2] <= -24 THEN 0
            ELSE IF x[1] < 0 THEN -((-x[1]) \div 2^(-x[2])) ELSE x[1] \div 2^(-x[2])
        numSimulationSubSteps == Trunc(FDiv(localTime, Tick))
    IN  /\ pc = "idle"
        /\ IF FLe(Tick, localTime)
           THEN /\ mLocalTime' = FSub(localTime, FMul(FromInt(numSimulationSubSteps), Tick))
                /\ mObjects' = [p \in Ptrs |-> updateSingleAabb(animated[p])]
           ELSE /\ mLocalTime' = localTime
                /\ mObjects' = animated
        /\ UNCHANGED <<mActors, mHeightFields, mDynamicsWorld, leaked, queues, water>>

\* updateScale(ptr), scale being the scale of the cell reference: the Object
\* of ptr is scaled and its AABB refreshed; without an Object the Actor of
\* ptr is scaled, of which the model keeps no extent
UpdateScale(ptr, scale) ==
    /\ pc = "idle"
    /\ IF mObjects[ptr] # NoObject
       THEN mObjects' = [mObjects EXCEPT ![ptr] =
                            updateSingleAabb(setScale(mObjects[ptr], scale))]
       ELSE UNCHANGED mObjects
    /\ UNCHANGED <<mActors, mHeightFields, mDynamicsWorld, leaked, queues, water, mLocalTime>>

\* updateRotation(ptr), rotation being the attitude of the base node of ptr:
\* the collision object of the Object of ptr is turned and its AABB refreshed;
\* without an Object the Actor of ptr is turned, of which the model keeps no
\* extent.  Of an Object without compound shape the model keeps no transform.
UpdateRotation(ptr, rotation) ==
    /\ pc = "idle"
    /\ IF mObjects[ptr] # NoObject
       THEN mObjects' = [mObjects EXCEPT ![ptr] =
                            IF "rotation" \in DOMAIN @
                            THEN updateSingleAabb([@ EXCEPT !.rotation = rotation])
                            ELSE @]
       ELSE UNCHANGED mObjects
    /\ UNCHANGED <<mActors, mHeightFields, mDynamicsWorld, leaked, queues, water, mLocalTime>>

\* updatePosition(ptr), position being the position of the reference of ptr:
\* the collision object of the Object of ptr is moved and its AABB refreshed;
\* without an Object the Actor of ptr is moved
UpdatePosition(ptr, position) ==
    /\ pc = "idle"
    /\ IF mObjects[ptr] # NoObject
       THEN mObjects' = [mObjects EXCEPT ![ptr] =
                            IF "origin" \in DOMAIN @
                            THEN updateSingleAabb([@ EXCEPT !.origin = position])
                            ELSE @]
       ELSE UNCHANGED mObjects
    /\ UNCHANGED <<mActors, mHeightFields, mDynamicsWorld, leaked, queues, water, mLocalTime>>

\* the animated shapes alone: an Object of the animated mesh, of any scale
\* and rotation, and two of a mesh without animated shapes have been added
AnimInit ==
    \E idolScale \in {100, 200}, idolRotation \in {0, 1} :
        /\ mActors = [p \in Ptrs |-> NoActor]
        /\ mMovementQueue = <<>>
        /\ mMovementResults = <<>>
        /\ mTimeAccum = FZero
        /\ world = FlatWorld
        /\ pc = "idle"
        /\ iter = 0
        /\ mv = NoMove
        /\ moveCalls = <<>>
        /\ discarded = FALSE
        /\ queuedOrder = <<>>
        /\ lastQueued = NoneQueued
        /\ mObjects = [p \in Ptrs |->
                          IF p = "idol"
                          THEN AnimatedObject("door", idolScale, idolRotation, <<0, 0, 0>>)
                          ELSE [mesh |-> "rock"]]
        /\ mHeightFields = [c \in Cells |-> NoHeightField]
        /\ mDynamicsWorld = SetToBag({ObjectCollisionObject(p, mObjects[p].mesh) : p \in Ptrs})
        /\ leaked = EmptyBag
        /\ mWaterEnabled = FALSE
        /\ mWaterHeight = 0
        /\ mWaterCollisionObject = NoWaterObject
        /\ lastWaterCall = NoWaterCall
        /\ lastTraceDown = NoTraceDown
        /\ mLocalTime = FZero

AnimNext ==
    \/ \E dt \in DtValues, scenes \in [{"idol"} -> SceneGraphs] :
           StepSimulation(dt, scenes)
    \/ \E ptr \in Ptrs, scale \in {100, 200} : UpdateScale(ptr, scale)
    \/ \E ptr \in Ptrs, rotation \in {0, 1} : UpdateRotation(ptr, rotation)
    \/ \E ptr \in Ptrs, position \in {<<0, 0, 0>>, <<100 * Scale, 0, 0>>} : UpdatePosition(ptr, position)

AnimSpec == AnimInit /\ [][AnimNext]_vars

\* ---------------------------------------------------------- properties
\* A call of applyQueuedMovement that stays below the tick is the only step
\* that raises mTimeAccum to a value below Tick; a drain returns in the step
\* from pc = "drain" to pc = "idle".

\* C1: the movement queue holds one entry per entity queued since it was last
\* cleared, in the order of the entities' first queueObjectMovement calls, each
\* entry with the vector of the entity's last call.
C1_QueueDedup ==
    mMovementQueue = [i \in 1 .. Len(queuedOrder) |->
                         [ptr |-> queuedOrder[i], movement |-> lastQueued[queuedOrder[i]]]]

\* all three entities are queued, the fish first, and the vector of the fish
\* is not the one a first call in this order can leave behind alone
C1_Witness ==
    /\ Len(mMovementQueue) = 3
    /\ mMovementQueue[1].ptr = "fish"
    /\ mMovementQueue[1].movement # mMovementQueue[2].movement
    /\ mMovementQueue[3].ptr = "player"

\* C2: in a drain, the results are one (entity, position) entry for each
\* registered entity of the queue entries passed so far, in queue order, and
\* MovementSolver::move was called for each with the entity's last queued vector.
C2_DrainResults ==
    pc = "drain" =>
        LET processed == SelectSeq(SubSeq(mMovementQueue, 1, iter - 1),
                                   LAMBDA e : Registered(e.ptr))
        IN  /\ Len(mMovementResults) = Len(processed)
            /\ Len(moveCalls) = Len(processed)
            /\ \A i \in DOMAIN processed :
                   /\ mMovementResults[i].ptr = processed[i].ptr
                   /\ moveCalls[i].ptr = processed[i].ptr
                   /\ moveCalls[i].movement = lastQueued[processed[i].ptr]

\* a drain has passed a queue of two registered entities with different vectors
C2_Witness ==
    /\ pc = "drain"
    /\ iter > Len(mMovementQueue)
    /\ Len(mMovementResults) = 2
    /\ mMovementResults[1].ptr = "player"
    /\ mMovementResults[2].ptr = "fish"
    /\ moveCalls[1].movement = Vec3f(0, 0, 0)
    /\ moveCalls[2].movement = Vec3f(0, 120, 0)

\* C3: a call of applyQueuedMovement after which the accumulated time is
\* below the tick returns an empty result list, calls no solver and changes no
\* actor; the solver runs only while the accumulated time is at least a tick.
C3_FixedTick ==
    /\ [][(pc = "idle" /\ FLt(mTimeAccum, mTimeAccum') /\ FLt(mTimeAccum', Tick))
             => /\ mMovementResults' = <<>>
                /\ mActors' = mActors
                /\ moveCalls' = <<>>
                /\ pc' = "idle"]_vars
    /\ [](pc # "idle" => FLe(Tick, mTimeAccum))

\* a call stayed below the tick after a drain had left results for the player
C3_Witness ==
    /\ pc = "idle"
    /\ FLt(FZero, mTimeAccum)
    /\ FLt(mTimeAccum, Tick)
    /\ mMovementResults = <<>>
    /\ mActors[PlayerPtr] # NoActor
    /\ mActors[PlayerPtr].onGround

\* C4 as stated: a call of applyQueuedMovement that stays below the tick
\* leaves the movement queue as it was.
C4_QueueKeptBelowTick ==
    [][(pc = "idle" /\ FLt(mTimeAccum, mTimeAccum') /\ FLt(mTimeAccum', Tick))
          => mMovementQueue' = mMovementQueue]_vars

\* C4: a call of applyQueuedMovement that stays below the tick adds dt to the
\* accumulated time and clears the movement queue without processing it, so
\* the entries queued before it never reach the solver.
C4_QueueClearedBelowTick ==
    [][(pc = "idle" /\ FLt(mTimeAccum, mTimeAccum') /\ FLt(mTimeAccum', Tick))
          => /\ \E dt \in DtValues : mTimeAccum' = FAdd(mTimeAccum, dt)
             /\ mMovementQueue' = <<>>
             /\ moveCalls' = <<>>
             /\ discarded' = (mMovementQueue # <<>>)]_vars

\* a call below the tick has cleared a queue that was not empty
C4_Witness ==
    /\ pc = "idle"
    /\ discarded
    /\ mMovementQueue = <<>>
    /\ mTimeAccum = F(1, 120)

\* C5 as stated: the time step handed to the solver is at most one tick.
C5_TimeStepAtMostTick == pc \in SolverPcs => FLe(mv.time, Tick)

\* C5: the time step a drain hands to the solver is all the time accumulated
\* since the last drain, which is at least a tick and is not cut down to a tick.
C5_TimeStepIsAccumulated ==
    /\ pc = "idle" => FLt(mTimeAccum, Tick)
    /\ pc # "idle" => FLe(Tick, mTimeAccum)
    /\ \A i \in DOMAIN moveCalls : moveCalls[i].time = mTimeAccum
    /\ pc \in SolverPcs => mv.time = mTimeAccum /\ FLe(mv.remainingTime, mTimeAccum)

\* the solver runs with a time step of more than a tick
C5_Witness == pc \in SolverPcs /\ FLt(Tick, mv.time)

\* C6: a drain calls the solver once for each registered entity of the queue
\* entries it has passed and for no entity twice, and when it returns the
\* accumulated time is 0 and the movement queue is empty.
C6_SingleStep ==
    /\ [](pc # "idle" =>
             LET done == IF pc = "drain" THEN iter - 1 ELSE iter
             IN  /\ Len(moveCalls) =
                        Cardinality({i \in 1 .. done : Registered(mMovementQueue[i].ptr)})
                 /\ \A i, j \in DOMAIN moveCalls :
                        moveCalls[i].ptr = moveCalls[j].ptr => i = j)
    /\ [][(pc = "drain" /\ pc' = "idle")
             => mTimeAccum' = FZero /\ mMovementQueue' = <<>>]_vars

\* a drain of two entities has returned
C6_Witness ==
    /\ pc = "idle"
    /\ Len(mMovementResults) = 2
    /\ mTimeAccum = FZero
    /\ mMovementQueue = <<>>

\* C7: in a drain, a queue entry whose entity is not registered leaves no
\* result, no solver call and no actor, and every registered entity of the
\* entries passed has its result, the results in queue order.
C7_SkipsUnregistered ==
    pc = "drain" =>
        LET passed == 1 .. iter - 1
            at(p) == CHOOSE r \in DOMAIN mMovementResults : mMovementResults[r].ptr = p
        IN  /\ \A i \in passed :
                   LET p == mMovementQueue[i].ptr
                   IN  IF Registered(p)
                       THEN \E r \in DOMAIN mMovementResults : mMovementResults[r].ptr = p
                       ELSE /\ \A r \in DOMAIN mMovementResults : mMovementResults[r].ptr # p
                            /\ \A c \in DOMAIN moveCalls : moveCalls[c].ptr # p
            /\ \A i, j \in passed :
                   (/\ i < j
                    /\ Registered(mMovementQueue[i].ptr)
                    /\ Registered(mMovementQueue[j].ptr))
                       => at(mMovementQueue[i].ptr) < at(mMovementQueue[j].ptr)

\* a drain has passed an unregistered entity queued between two registered ones
C7_Witness ==
    /\ pc = "drain"
    /\ iter > Len(mMovementQueue)
    /\ Len(mMovementQueue) = 3
    /\ Registered(mMovementQueue[1].ptr)
    /\ ~Registered(mMovementQueue[2].ptr)
    /\ Registered(mMovementQueue[3].ptr)
    /\ Len(mMovementResults) = 2

\* C8: the move() call that ends with its ground probe stores a zero inertial
\* force when the actor ends on ground, below the swim level or flying;
\* otherwise the stored z is the local inertia z (0 after the push off another
\* actor) minus the gravity of the time step, times the slow-fall factor when
\* negative.
C8_StoredInertia ==
    [][pc = "probe" =>
          LET actor == mActors'[mv.ptr]
              z == moveCalls'[Len(moveCalls')].newPosition[3]
              probe == moveCalls'[Len(moveCalls')].probe
              pushed == /\ probe.performed
                        /\ probe.k < FracDen
                        /\ probe.group = CollisionType_Actor
                        /\ FLt(Length2(WithZ(mv.velocity, FZero)), FromInt(100 * 100))
              before == IF pushed THEN FZero ELSE mv.inertia[3]
              fallen == FAdd(before, FMul(mv.time, F(-6272, 10)))
          IN  IF actor.onGround \/ FLt(z, mv.swimlevel) \/ mv.isFlying
              THEN actor.inertialForce = Zero3
              ELSE actor.inertialForce[3] =
                       IF FLt(fallen, FZero) THEN FMul(fallen, mv.slowFall) ELSE fallen]_vars

\* an actor under a slow-fall effect ends the call in the air, its fall
\* slower than the gravity of the time step
C8_Witness ==
    /\ pc = "drain"
    /\ Len(mMovementResults) = 1
    /\ \E p \in Ptrs :
           /\ Registered(p)
           /\ isMobile(p)
           /\ mActors[p].collisionMode
           /\ ~mActors[p].onGround
           /\ world.ref[p].slowFallMagnitude > 0
           /\ FLt(mActors[p].inertialForce[3], FZero)
           /\ FLt(GravityStep(mTimeAccum), mActors[p].inertialForce[3])

\* C9: after a move() call that ran the collision resolution, the actor is on
\* ground exactly when the ground probe was performed and was answered by a hit
\* (fraction below 1) on a surface of slope at most sMaxSlope (49 degrees) that
\* is no actor.
C9_OnGround ==
    pc = "drain" =>
        \A c \in DOMAIN moveCalls :
            LET p == moveCalls[c].ptr
                probe == moveCalls[c].probe
            IN  (isMobile(p) /\ mActors[p].collisionMode)
                    => (mActors[p].onGround <=>
                            /\ probe.performed
                            /\ probe.k < FracDen
                            /\ SlopeOk(probe.normal)
                            /\ probe.group # CollisionType_Actor)

\* an actor that was on ground touches a surface steeper than sMaxSlope and
\* is off ground
C9_Witness ==
    /\ pc = "drain"
    /\ Len(moveCalls) = 1
    /\ moveCalls[1].probe.performed
    /\ moveCalls[1].probe.k = 0
    /\ moveCalls[1].probe.normal = NormalSteep
    /\ ~mActors[moveCalls[1].ptr].onGround

\* C10 as stated: a move() call of a non-flying actor that starts below the
\* swim level ends at a position that is not above the swim level.
C10_NeverLeavesWater ==
    [][(pc = "probe" /\ FLt(mv.position[3], mv.swimlevel) /\ ~mv.isFlying)
          => FLe(moveCalls'[Len(moveCalls')].newPosition[3], mv.swimlevel)]_vars

\* C10: a move() call of a non-flying actor that starts below the swim level
\* and in which no step-up moved the actor ends its resolution loop not above
\* the swim level, and ends at most one unit above it (the snap to the ground
\* of a loop that ended exactly at the swim level).
C10_SwimCeiling ==
    [][(/\ pc = "probe"
        /\ FLt(mv.position[3], mv.swimlevel)
        /\ ~mv.isFlying
        /\ ~mv.stepped)
          => /\ FLe(mv.newPosition[3], mv.swimlevel)
             /\ FLe(moveCalls'[Len(moveCalls')].newPosition[3],
                    FAdd(mv.swimlevel, FOne))]_vars

\* a swimming actor that no step-up can move (the floor scene blocks every
\* step) has swum up to the swim level exactly, and the snap to the ground
\* has left it one unit above the swim level
C10_Witness ==
    /\ pc = "drain"
    /\ world.scene = "floor"
    /\ Len(moveCalls) = 1
    /\ LET p == moveCalls[1].ptr
           ref == world.ref[p]
           swimlevel == SwimLevel(ref.waterLevel)
       IN  /\ ref.cellHasWater
           /\ ~ref.flying
           /\ FLt(FAdd(ref.pos[3], FromInt(halfExtentsZ)), swimlevel)
           /\ moveCalls[1].probe.performed
           /\ mActors[p].onGround
           /\ moveCalls[1].newPosition[3] = FAdd(swimlevel, FOne)

\* the move() call of C11: an actor at rest in the air (no stored inertia, no
\* requested movement, not flying, not swimming, no slow-fall effect) with
\* nothing below it, and a time step of one tick
C11_AtRestInAir ==
    /\ pc = "probe"
    /\ world.scene = "open"
    /\ mv.movement = Zero3
    /\ mv.origVelocity = Zero3
    /\ mv.inertia = Zero3
    /\ mActors[mv.ptr].inertialForce = Zero3
    /\ ~mActors[mv.ptr].onGround
    /\ ~mv.isFlying
    /\ ~FLt(mv.position[3], mv.swimlevel)
    /\ mv.slowFall = FOne
    /\ mv.time = Tick

\* what one tick and two ticks of gravity add to the inertia z of C11, and the
\* distance the inertia of one tick moves the actor in a tick
C11_First == FMul(Tick, F(-6272, 10))
C11_Second == FAdd(C11_First, FMul(Tick, F(-6272, 10)))
C11_Drop == FMul(C11_First, Tick)
C11_Numbers ==
    /\ FLt(F(-1046, 100), C11_First) /\ FLt(C11_First, F(-1045, 100))
    /\ FLt(F(-2091, 100), C11_Second) /\ FLt(C11_Second, F(-2090, 100))
    /\ FLt(F(-18, 100), C11_Drop) /\ FLt(C11_Drop, F(-17, 100))

\* C11 as stated: the tick that first accumulates gravity stores the inertia
\* z of -10.45 and has already lowered the returned position.
C11_FallsInFirstTick ==
    [][C11_AtRestInAir =>
          /\ mActors'[mv.ptr].inertialForce[3] = C11_First
          /\ FLt(mMovementResults'[Len(mMovementResults')].pos[3],
                 world.ref[mv.ptr].pos[3])]_vars

\* C11: the tick that first accumulates gravity stores the inertia z of
\* -10.45 (-g times the tick) and returns the position unchanged; the
\* position first moves in the next tick, by the stored inertia times the
\* tick (0.17 units down), while the inertia grows to -20.9 as long as the
\* actor stays out of the water.
C11_FallsInSecondTick ==
    [][/\ C11_Numbers
       /\ C11_AtRestInAir =>
             /\ mActors'[mv.ptr].inertialForce = <<FZero, FZero, C11_First>>
             /\ mMovementResults'[Len(mMovementResults')].pos = world.ref[mv.ptr].pos
       /\ (/\ pc = "probe"
           /\ world.scene = "open"
           /\ mv.movement = Zero3
           /\ mv.origVelocity = <<FZero, FZero, C11_First>>
           /\ mv.inertia = <<FZero, FZero, C11_First>>
           /\ ~mActors[mv.ptr].onGround
           /\ ~mv.isFlying
           /\ ~FLt(mv.newPosition[3], mv.swimlevel)
           /\ mv.slowFall = FOne
           /\ mv.time = Tick)
             => LET pos == world.ref[mv.ptr].pos
                    fallen == WithZ(pos, FSub(FAdd(FAdd(pos[3], FromInt(halfExtentsZ)),
                                                   C11_Drop),
                                              FromInt(halfExtentsZ)))
                IN  /\ mActors'[mv.ptr].inertialForce = <<FZero, FZero, C11_Second>>
                    /\ mMovementResults'[Len(mMovementResults')].pos = fallen
                    /\ FLt(mMovementResults'[Len(mMovementResults')].pos[3], pos[3])]_vars

\* the first tick of a fall has ended: gravity is stored, the returned
\* position is the position the actor had
C11_Witness ==
    /\ pc = "drain"
    /\ world.scene = "open"
    /\ mTimeAccum = Tick
    /\ Len(mMovementResults) = 1
    /\ LET p == mMovementResults[1].ptr
       IN  /\ lastQueued[p] = Zero3
           /\ ~world.ref[p].flying
           /\ world.ref[p].slowFallMagnitude = 0
           /\ world.ref[p].pos = Zero3
           /\ mActors[p].collisionMode
           /\ ~mActors[p].onGround
           /\ mActors[p].inertialForce = <<FZero, FZero, FMul(Tick, F(-6272, 10))>>
           /\ mMovementResults[1].pos = world.ref[p].pos

\* C12: a stepMove call of move() never leaves the actor more than sStepSizeUp
\* above the position it had before the call.
C12_StepUpBounded ==
    [][(pc = "step1" \/ pc = "step2")
          => FLe(mv'.newPosition[3], FAdd(mv.newPosition[3], FromInt(sStepSizeUp)))]_vars

\* C13: the resolution loop of a move() call runs an iteration only while
\* fewer than sMaxIterations iterations are done and more than 0.01 s remains;
\* every iteration that returns to the head of the loop counts, the one that
\* takes the swim-ceiling branch included; the remaining time never grows.
C13_LoopTerminates ==
    /\ [](pc \in SolverPcs =>
             /\ mv.iterations <= sMaxIterations
             /\ FLe(FZero, mv.remainingTime)
             /\ (pc # "probe" => LoopCondition(mv)))
    /\ [][(pc \in SolverPcs /\ pc' \in SolverPcs) =>
             /\ FLe(mv'.remainingTime, mv.remainingTime)
             /\ mv'.iterations >= mv.iterations
             /\ (pc' = "loop" => mv'.iterations = mv.iterations + 1)
             /\ (pc = "loop" /\ pc' = "loop" => mv'.remainingTime = mv.remainingTime)]_vars

\* the loop has ended on its eighth iteration with time remaining
C13_Witness ==
    /\ pc = "probe"
    /\ mv.iterations = sMaxIterations
    /\ FLt(F(1, 100), mv.remainingTime)

\* C14: addObject, addActor and addHeightField called with a key that is
\* registered leave the maps and the collision world as they are: one entry
\* for the key, one collision object of it attached.
C14_AddIsIdempotent ==
    [][/\ \A ptr \in Ptrs, mesh \in Meshes :
              (mObjects[ptr] # NoObject /\ AddObject(ptr, mesh))
                  => UNCHANGED <<mObjects, mDynamicsWorld>>
       /\ \A ptr \in Ptrs :
              (Registered(ptr) /\ AddActor(ptr)) => UNCHANGED <<mActors, mDynamicsWorld>>
       /\ \A cell \in Cells :
              (mHeightFields[cell] # NoHeightField /\ AddHeightField(cell))
                  => UNCHANGED <<mHeightFields, mDynamicsWorld>>]_vars

\* the collision objects of the live owners: the records in the maps, the
\* unreachable records and the water plane that mWaterCollisionObject holds,
\* which updateWater detaches and keeps when the water is disabled
LiveCollisionObjects ==
    SetToBag({ObjectCollisionObject(p, mObjects[p].mesh) :
                  p \in {q \in Ptrs : mObjects[q] # NoObject}})
    (+) SetToBag({ActorCollisionObject(p) : p \in {q \in Ptrs : Registered(q)}})
    (+) SetToBag({HeightFieldCollisionObject(c) :
                      c \in {d \in Cells : mHeightFields[d] # NoHeightField}})
    (+) leaked
    (+) (IF mWaterCollisionObject # NoWaterObject THEN One(mWaterCollisionObject)
         ELSE EmptyBag)

\* C15 as stated: every attached collision object has exactly one owner and
\* its user pointer refers to that owner.
C15_OwnerInBackReference ==
    \A colobj \in BagToSet(mDynamicsWorld) :
        /\ CopiesIn(colobj, mDynamicsWorld) = CopiesIn(colobj, LiveCollisionObjects)
        /\ colobj.userPointer # NoUserPointer

\* C15: every attached collision object is that of a live owner and is
\* attached once for each such owner; the user pointer of a static object and
\* of an actor capsule refers to the holder of its entity, that of a
\* heightfield tile and of the water plane is not set.
C15_OneOwner ==
    \A colobj \in BagToSet(mDynamicsWorld) :
        /\ CopiesIn(colobj, mDynamicsWorld) = CopiesIn(colobj, LiveCollisionObjects)
        /\ IF colobj.group \in {CollisionType_World, CollisionType_Actor}
           THEN colobj.userPointer \in Ptrs
           ELSE colobj.userPointer = NoUserPointer

\* a static object, an actor capsule, a heightfield tile and the water plane
\* are attached
C15_Witness ==
    \A group \in {CollisionType_World, CollisionType_Actor, CollisionType_HeightMap,
                   CollisionType_Water} :
        \E colobj \in BagToSet(mDynamicsWorld) : colobj.group = group

\* C16: no entity is a key of the object map and of the actor map at once.
C16_MapsDisjoint ==
    \A ptr \in Ptrs : ~(mObjects[ptr] # NoObject /\ Registered(ptr))

\* C17: updatePtr(old, updated) with old registered leaves updated mapped to
\* the record old was mapped to and old unregistered, and changes neither the
\* number of registered records nor that of attached collision objects,
\* whatever updated is.
C17_ReKeys ==
    [][\A old \in Ptrs, updated \in Ptrs :
          UpdatePtr(old, updated) =>
              /\ mObjects[old] # NoObject =>
                     /\ mObjects'[updated] = mObjects[old]
                     /\ old # updated => mObjects'[old] = NoObject
              /\ Registered(old) =>
                     /\ mActors'[updated] = mActors[old]
                     /\ old # updated => mActors'[old] = NoActor
              /\ Cardinality({p \in Ptrs : mObjects'[p] # NoObject})
                     = Cardinality({p \in Ptrs : mObjects[p] # NoObject})
              /\ Cardinality({p \in Ptrs : mActors'[p] # NoActor})
                     = Cardinality({p \in Ptrs : mActors[p] # NoActor})
              /\ BagCardinality(mDynamicsWorld') = BagCardinality(mDynamicsWorld)]_vars

\* C18: remove and removeHeightField take the key out of the maps and the
\* collision objects of its records out of the collision world, so that
\* every attached collision object still has a live owner; the records of
\* the other keys stay as they are, and nothing changes when the key is not
\* registered.
C18_DetachThenDestroy ==
    [][/\ \A ptr \in Ptrs :
              Remove(ptr) =>
                  /\ mObjects'[ptr] = NoObject
                  /\ mActors'[ptr] = NoActor
                  /\ \A q \in Ptrs \ {ptr} :
                         mObjects'[q] = mObjects[q] /\ mActors'[q] = mActors[q]
                  /\ UNCHANGED mHeightFields
                  /\ mDynamicsWorld' =
                         (mDynamicsWorld
                          (-) (IF mObjects[ptr] # NoObject
                               THEN One(ObjectCollisionObject(ptr, mObjects[ptr].mesh))
                               ELSE EmptyBag))
                         (-) (IF Registered(ptr) THEN One(ActorCollisionObject(ptr))
                              ELSE EmptyBag)
                  /\ \A colobj \in BagToSet(mDynamicsWorld') :
                         CopiesIn(colobj, mDynamicsWorld')
                             = CopiesIn(colobj, LiveCollisionObjects')
                  /\ (mObjects[ptr] = NoObject /\ ~Registered(ptr)) => UNCHANGED vars
       /\ \A cell \in Cells :
              RemoveHeightField(cell) =>
                  /\ mHeightFields'[cell] = NoHeightField
                  /\ \A d \in Cells \ {cell} : mHeightFields'[d] = mHeightFields[d]
                  /\ UNCHANGED <<mObjects, mActors>>
                  /\ mDynamicsWorld' =
                         mDynamicsWorld
                         (-) (IF mHeightFields[cell] # NoHeightField
                              THEN One(HeightFieldCollisionObject(cell)) ELSE EmptyBag)
                  /\ \A colobj \in BagToSet(mDynamicsWorld') :
                         CopiesIn(colobj, mDynamicsWorld')
                             = CopiesIn(colobj, LiveCollisionObjects')
                  /\ mHeightFields[cell] = NoHeightField => UNCHANGED vars]_vars

\* the player's Object has been removed: the maps are empty, and what is
\* attached is the Object of an earlier second addObject call
C18_Witness ==
    /\ \A ptr \in Ptrs : mObjects[ptr] = NoObject /\ ~Registered(ptr)
    /\ \A cell \in Cells : mHeightFields[cell] = NoHeightField
    /\ leaked = One(ObjectCollisionObject(PlayerPtr, "rock"))
    /\ mDynamicsWorld = leaked

\* C19: at most one water plane is attached, one is attached exactly when
\* the water is enabled, and it lies at the height of the last enableWater or
\* setWaterHeight call: each such call stores its height, disableWater keeps
\* the stored height, and the attached plane lies at the stored height.
C19_OneWaterPlane ==
    /\ [](/\ \A h \in WaterHeights :
                  CopiesIn(WaterCollisionObject(h), mDynamicsWorld)
                      = (IF mWaterEnabled /\ h = mWaterHeight THEN 1 ELSE 0)
          /\ mWaterHeight \in WaterHeights)
    /\ [][/\ \A h \in WaterHeights :
                 EnableWater(h) => (mWaterEnabled' /\ mWaterHeight' = h)
          /\ \A h \in WaterHeights :
                 SetWaterHeight(h) =>
                     (mWaterEnabled' = mWaterEnabled /\ mWaterHeight' = h)
          /\ DisableWater => (~mWaterEnabled' /\ mWaterHeight' = mWaterHeight)]_vars

\* the water is enabled at a height it did not have before: the old plane
\* was removed and a new one added
C19_Witness ==
    /\ mWaterEnabled
    /\ mWaterHeight = 100
    /\ lastWaterCall = [removed |-> TRUE, added |-> TRUE]
    /\ CopiesIn(WaterCollisionObject(100), mDynamicsWorld) = 1
    /\ CopiesIn(WaterCollisionObject(0), mDynamicsWorld) = 0

\* C20: enableWater at the height the enabled water has, disableWater while
\* the water is disabled and setWaterHeight at the stored height call neither
\* removeCollisionObject nor addCollisionObject and leave the water state and
\* the collision world as they are.
C20_RebuiltOnChangeOnly ==
    [][(\/ \E h \in WaterHeights : mWaterEnabled /\ mWaterHeight = h /\ EnableWater(h)
        \/ ~mWaterEnabled /\ DisableWater
        \/ \E h \in WaterHeights : mWaterHeight = h /\ SetWaterHeight(h))
          => /\ lastWaterCall' = NoWaterCall
             /\ UNCHANGED <<mWaterEnabled, mWaterHeight, mWaterCollisionObject,
                            mDynamicsWorld>>]_vars

\* a call that changed nothing has followed a call that rebuilt the plane
C20_Witness ==
    /\ mWaterEnabled
    /\ mWaterCollisionObject = WaterCollisionObject(mWaterHeight)
    /\ CopiesIn(mWaterCollisionObject, mDynamicsWorld) = 1
    /\ lastWaterCall = NoWaterCall

\* C21: the move() call of a mobile actor whose collision mode is off runs
\* no sweep (the resolution loop is not entered), returns the position plus
\* the movement turned by pitch and yaw times the time step, resets
\* walking-on-water and leaves the on-ground flag and the inertial force.
C21_NoCollisionMode ==
    [][(/\ pc = "drain"
        /\ iter <= Len(mMovementQueue)
        /\ Registered(mMovementQueue[iter].ptr)
        /\ isMobile(mMovementQueue[iter].ptr)
        /\ ~mActors[mMovementQueue[iter].ptr].collisionMode)
          => LET entry == mMovementQueue[iter]
                 ref == world.ref[entry.ptr]
                 turned == RotatePitchYaw(ref.pitch, ref.yaw, entry.movement)
                 inTurn == RotateYaw(ref.yaw, QuatRotate(Quat(ref.pitch, 0), entry.movement))
                 Near(a, b) == FLt(FSub(a, b), F(1, 1000)) /\ FLt(FSub(b, a), F(1, 1000))
             IN  /\ \A i \in 1 .. 3 : Near(turned[i], inTurn[i])
                 /\ pc' = "drain"
                 /\ mv' = NoMove
                 /\ iter' = iter + 1
                 /\ mMovementResults' =
                        Append(mMovementResults,
                               [ptr |-> entry.ptr,
                                pos |-> <<FAdd(ref.pos[1], FMul(turned[1], mTimeAccum)),
                                          FAdd(ref.pos[2], FMul(turned[2], mTimeAccum)),
                                          FAdd(ref.pos[3], FMul(turned[3], mTimeAccum))>>])
                 /\ ~mActors'[entry.ptr].walkingOnWater
                 /\ mActors'[entry.ptr].onGround = mActors[entry.ptr].onGround
                 /\ mActors'[entry.ptr].inertialForce = mActors[entry.ptr].inertialForce
                 /\ ~mActors'[entry.ptr].collisionMode]_vars

\* a turned actor without collision has moved along its turned movement; it
\* is still on ground with its inertial force, walking-on-water is reset
C21_Witness ==
    /\ pc = "drain"
    /\ Len(mMovementResults) = 1
    /\ LET p == mMovementResults[1].ptr
       IN  /\ isMobile(p)
           /\ ~mActors[p].collisionMode
           /\ mActors[p].onGround
           /\ mActors[p].inertialForce = Vec3f(0, 30, 20)
           /\ ~mActors[p].walkingOnWater
           /\ world.ref[p].yaw = 1
           /\ lastQueued[p] = Vec3f(0, 120, 0)
           /\ mMovementResults[1].pos # world.ref[p].pos
           /\ mMovementResults[1].pos[2] = world.ref[p].pos[2]

\* C22: the move() call of an actor whose class is not mobile returns the
\* current position and changes nothing of the actor: on-ground, inertial
\* force and walking-on-water keep their values, whatever the movement and
\* the collision mode.
C22_NotMobile ==
    [][(/\ pc = "drain"
        /\ iter <= Len(mMovementQueue)
        /\ Registered(mMovementQueue[iter].ptr)
        /\ ~isMobile(mMovementQueue[iter].ptr))
          => LET entry == mMovementQueue[iter]
             IN  /\ pc' = "drain"
                 /\ mv' = NoMove
                 /\ mMovementResults' =
                        Append(mMovementResults,
                               [ptr |-> entry.ptr, pos |-> world.ref[entry.ptr].pos])
                 /\ mActors'[entry.ptr].onGround = mActors[entry.ptr].onGround
                 /\ mActors'[entry.ptr].inertialForce = mActors[entry.ptr].inertialForce
                 /\ mActors'[entry.ptr].walkingOnWater = mActors[entry.ptr].walkingOnWater
                 /\ mActors'[entry.ptr].collisionMode = mActors[entry.ptr].collisionMode]_vars

\* an immobile actor in the air, asked to move, with collision on: after its
\* move() call it is where it was, not on ground, with its inertial force
\* and its walking-on-water flag
C22_Witness ==
    /\ pc = "drain"
    /\ Len(mMovementResults) = 1
    /\ LET p == mMovementResults[1].ptr
       IN  /\ ~isMobile(p)
           /\ mActors[p].collisionMode
           /\ mActors[p].walkingOnWater
           /\ ~mActors[p].onGround
           /\ mActors[p].inertialForce = <<FZero, FZero, GravityStep(Tick)>>
           /\ lastQueued[p] = Vec3f(0, 60, 90)
           /\ mMovementResults[1].pos = world.ref[p].pos

\* C23: toggleCollisionMode() flips the collision mode of the player's actor
\* only and returns the new value; every other actor is unchanged; a second
\* toggle restores the flag; with no actor registered for the player it
\* returns false and changes nothing.
C23_ToggleFlipsPlayer ==
    /\ [](toggleCollisionMode(toggleCollisionMode(mActors).actors).actors = mActors)
    /\ [][ToggleCollisionMode
           => LET returned == toggleCollisionMode(mActors).result
              IN  /\ \A p \in Ptrs \ {PlayerPtr} : mActors'[p] = mActors[p]
                  /\ UNCHANGED <<queues, registry, water>>
                  /\ IF Registered(PlayerPtr)
                     THEN /\ mActors'[PlayerPtr].collisionMode
                                = ~mActors[PlayerPtr].collisionMode
                          /\ returned = mActors'[PlayerPtr].collisionMode
                          /\ mActors'[PlayerPtr]
                                = [mActors[PlayerPtr] EXCEPT !.collisionMode = returned]
                     ELSE /\ returned = FALSE
                          /\ mActors' = mActors]_vars

\* the player's collision mode is off next to another actor whose collision
\* mode is on
C23_Witness ==
    /\ pc = "idle"
    /\ Registered(PlayerPtr)
    /\ ~mActors[PlayerPtr].collisionMode
    /\ toggleCollisionMode(mActors).result
    /\ \E p \in Ptrs \ {PlayerPtr} : Registered(p) /\ mActors[p].collisionMode

\* C24: addObject() of a mesh whose shape instance has no collision shape
\* does nothing: the object map, the actor map and the collision objects
\* attached to the world are unchanged, and the call does not make the entity
\* a tracked one.
C24_NoShapeNoObject ==
    [][\A ptr \in Ptrs, mesh \in Meshes :
          (AddObject(ptr, mesh) /\ ~hasCollisionShape(mesh))
            => /\ mObjects' = mObjects
               /\ mActors' = mActors
               /\ mHeightFields' = mHeightFields
               /\ mDynamicsWorld' = mDynamicsWorld
               /\ leaked' = leaked
               /\ (mObjects[ptr] = NoObject => mObjects'[ptr] = NoObject)]_vars

\* one entity is an object of the world, the other is in neither map, and
\* addObject() with the shapeless mesh is enabled and leaves it so
C24_Witness ==
    /\ pc = "idle"
    /\ mObjects["idol"] # NoObject
    /\ mObjects["player"] = NoObject
    /\ ~Registered("player")
    /\ ~hasCollisionShape("marker")
    /\ BagCardinality(mDynamicsWorld) = 1
    /\ ENABLED AddObject("player", "marker")

\* C25: the game world is read-only to the physics tick: no step of
\* applyQueuedMovement() and of the move() calls it makes changes what the
\* game world owns (movement settings, fall height of the creature stats,
\* stored position); only the actors, the queue, the accumulator and the
\* results change.
C25_GameWorldReadOnly ==
    [][world' = world]_vars

\* C26 as stated: traceDown() of a registered actor sets on-ground false and
\* returns the position if the ground sweep hits nothing; if it hits and the
\* ray's hit point is more than 30 units from the swept end position or the
\* swept normal is steeper than sMaxSlope, it returns the ray's hit point
\* + (0,0,1) and sets on-ground from the ray's normal; otherwise it returns
\* the swept end position and sets on-ground from the swept normal.  For an
\* entity without actor it returns the position and changes nothing.
C26_RayPointWheneverSteep ==
    [][\A ptr \in Ptrs, maxHeight \in MaxHeights, sweep \in GroundAnswers :
         \A ray \in RayAnswers(sweep) :
           (/\ lastTraceDown' # NoTraceDown
            /\ lastTraceDown'.ptr = ptr
            /\ lastTraceDown'.maxHeight = maxHeight
            /\ lastTraceDown'.sweep = sweep
            /\ lastTraceDown'.ray = ray
            /\ TraceDownAnswered(ptr, maxHeight, sweep, ray))
             => LET position == world.ref[ptr].pos
                    to == VSub(position, <<FZero, FZero, maxHeight>>)
                    sweptEnd == VAdd(VScale(VSub(to, position), F(sweep.k, FracDen)),
                                     position)
                    rayPoint == VAdd(VScale(position, FSub(FOne, F(ray.k, FracDen))),
                                     VScale(to, F(ray.k, FracDen)))
                    far == FLt(FromInt(30), Length(VSub(rayPoint, sweptEnd)))
                    steep == ~SlopeOk(sweep.normal)
                IN  /\ lastTraceDown'.ptr = ptr
                    /\ \A p \in Ptrs \ {ptr} : mActors'[p] = mActors[p]
                    /\ IF ~Registered(ptr)
                       THEN /\ lastTraceDown'.result = position
                            /\ mActors' = mActors
                       ELSE /\ mActors'[ptr] = [mActors[ptr] EXCEPT !.onGround =
                                                    mActors'[ptr].onGround]
                            /\ IF sweep.k >= FracDen
                               THEN /\ ~mActors'[ptr].onGround
                                    /\ lastTraceDown'.result = position
                               ELSE IF (ray.hasHit /\ far) \/ steep
                               THEN /\ ray.hasHit
                                    /\ lastTraceDown'.result
                                          = VAdd(rayPoint, Vec3f(0, 0, 1))
                                    /\ mActors'[ptr].onGround
                                          = SlopeOk(ray.normal)
                               ELSE /\ lastTraceDown'.result = sweptEnd
                                    /\ mActors'[ptr].onGround = ~steep]_vars

\* C26 amended: as above, but the ray's hit point is used only if the ray
\* hits something; when it hits nothing, the swept end position is returned
\* and on-ground is set from the swept normal, steep or not.
C26_RayPointIfRayHits ==
    [][\A ptr \in Ptrs, maxHeight \in MaxHeights, sweep \in GroundAnswers :
         \A ray \in RayAnswers(sweep) :
           (/\ lastTraceDown' # NoTraceDown
            /\ lastTraceDown'.ptr = ptr
            /\ lastTraceDown'.maxHeight = maxHeight
            /\ lastTraceDown'.sweep = sweep
            /\ lastTraceDown'.ray = ray
            /\ TraceDownAnswered(ptr, maxHeight, sweep, ray))
             => LET position == world.ref[ptr].pos
                    to == VSub(position, <<FZero, FZero, maxHeight>>)
                    sweptEnd == VAdd(VScale(VSub(to, position), F(sweep.k, FracDen)),
                                     position)
                    rayPoint == VAdd(VScale(position, FSub(FOne, F(ray.k, FracDen))),
                                     VScale(to, F(ray.k, FracDen)))
                    far == FLt(FromInt(30), Length(VSub(rayPoint, sweptEnd)))
                    steep == ~SlopeOk(sweep.normal)
                IN  /\ lastTraceDown'.ptr = ptr
                    /\ \A p \in Ptrs \ {ptr} : mActors'[p] = mActors[p]
                    /\ IF ~Registered(ptr)
                       THEN /\ lastTraceDown'.result = position
                            /\ mActors' = mActors
                       ELSE /\ mActors'[ptr] = [mActors[ptr] EXCEPT !.onGround =
                                                    mActors'[ptr].onGround]
                            /\ IF sweep.k >= FracDen
                               THEN /\ ~mActors'[ptr].onGround
                                    /\ lastTraceDown'.result = position
                               ELSE IF ray.hasHit /\ (far \/ steep)
                               THEN /\ lastTraceDown'.result
                                          = VAdd(rayPoint, Vec3f(0, 0, 1))
                                    /\ mActors'[ptr].onGround
                                          = SlopeOk(ray.normal)
                               ELSE /\ lastTraceDown'.result = sweptEnd
                                    /\ mActors'[ptr].onGround = ~steep]_vars

\* on dry land the sweep hit at once and the ray 50 units further down: the
\* call returned the point one unit above the ray's hit and set on-ground
C26_Witness ==
    /\ lastTraceDown # NoTraceDown
    /\ Registered(lastTraceDown.ptr)
    /\ world.ref[lastTraceDown.ptr].pos = Zero3
    /\ lastTraceDown.result = Vec3f(0, 0, -49)
    /\ mActors[lastTraceDown.ptr].onGround

\* C27 as stated: in an iteration of the loop of move() with the actor not
\* flying, the position at or below the swim level (equal included) and the
\* tentative next position above it, the velocity is redirected, no sweep is
\* performed and no time is consumed.
C27_CeilingAtSwimLevel ==
    [][(/\ pc = "loop"
        /\ ~mv.isFlying
        /\ FLe(mv.newPosition[3], mv.swimlevel)
        /\ FLt(mv.swimlevel, NextPos(mv)[3]))
          => /\ mv'.velocity # mv.velocity
             /\ mv'.velocity[3] = FZero
             /\ mv'.newPosition = mv.newPosition
             /\ mv'.remainingTime = mv.remainingTime
             /\ pc' # "step1"]_vars

\* C27 amended: the swim ceiling applies strictly below the swim level: there
\* the velocity is redirected, no sweep is performed, no time is consumed and
\* the iteration is counted; with the position exactly at the swim level the
\* velocity is kept and the iteration goes on to its sweep.
C27_CeilingBelowSwimLevel ==
    [][(/\ pc = "loop"
        /\ ~mv.isFlying
        /\ FLt(mv.swimlevel, NextPos(mv)[3]))
          => /\ FLt(mv.newPosition[3], mv.swimlevel)
                  => /\ mv' = [mv EXCEPT !.velocity = mv'.velocity,
                                         !.iterations = mv.iterations + 1]
                     /\ mv'.velocity # mv.velocity
                     /\ mv'.velocity[3] = FZero
                     /\ pc' \in {"loop", "probe"}
             /\ mv.newPosition[3] = mv.swimlevel
                  => /\ mv'.velocity = mv.velocity
                     /\ mv'.iterations = mv.iterations
                     /\ pc' \in {"step1", "probe"}]_vars

\* a swimmer heading up and forward is at the head of its second iteration
\* where it started, with all its time and a level velocity
C27_Witness ==
    /\ pc = "loop"
    /\ mv.iterations = 1
    /\ ~mv.isFlying
    /\ FLt(mv.newPosition[3], mv.swimlevel)
    /\ mv.newPosition = mv.position
    /\ mv.remainingTime = mv.time
    /\ FLt(FZero, mv.origVelocity[3])
    /\ mv.origVelocity[2] # FZero
    /\ mv.velocity[2] # FZero
    /\ mv.velocity[3] = FZero

\* C28 as stated: the swim ceiling turns a velocity (vx, vy, vz) into exactly
\* (vx, vy, 0): the horizontal components are kept as they are, and the next
\* tentative position is at the height of the position.
C28_CeilingKeepsHorizontalExactly ==
    [][(/\ pc = "loop"
        /\ SwimCeiling(mv))
          => /\ mv'.velocity[1] = mv.velocity[1]
             /\ mv'.velocity[2] = mv.velocity[2]
             /\ mv'.velocity[3] = FZero
             /\ NextPos(mv')[3] = mv.newPosition[3]
             /\ mv'.newPosition = mv.newPosition]_vars

\* C28: the swim ceiling turns a velocity (vx, vy, vz) into (vx, vy, 0) up to
\* the rounding of its two normalizations: the z component is exactly 0 and
\* the next tentative position is at the height of the position; each
\* horizontal component is the one before to a millionth of the speed, not
\* stretched to the speed before.
C28_CeilingKeepsHorizontal ==
    [][(/\ pc = "loop"
        /\ SwimCeiling(mv))
          => LET tolerance == FMul(Length(mv.velocity), F(1, 1000000))
                 Near(a, b) == FLe(FSub(a, b), tolerance) /\ FLe(FSub(b, a), tolerance)
             IN  /\ Near(mv'.velocity[1], mv.velocity[1])
                 /\ Near(mv'.velocity[2], mv.velocity[2])
                 /\ mv'.velocity[3] = FZero
                 /\ NextPos(mv')[3] = mv.newPosition[3]
                 /\ mv'.newPosition = mv.newPosition]_vars

\* a swimmer was heading up and along at (0, 60, 90): after the swim ceiling
\* it is slower than before, level, and its forward component is the float
\* next above 60
C28_Witness ==
    /\ pc = "loop"
    /\ mv.iterations = 1
    /\ mv.newPosition = mv.position
    /\ FLt(mv.position[3], mv.swimlevel)
    /\ mv.origVelocity = Vec3f(0, 60, 90)
    /\ mv.velocity[3] = FZero
    /\ mv.velocity[1] = FZero
    /\ mv.velocity[2] # mv.origVelocity[2]
    /\ FLt(mv.velocity[2], F(60001, 1000))
    /\ FLt(Length(mv.velocity), Length(mv.origVelocity))
    /\ NextPos(mv)[3] = mv.newPosition[3]

\* C29: the slide step breaks the loop when the new slide velocity v' has
\* v'.v0 <= 0 (v0 the velocity move() started with), so that no velocity
\* turned around with respect to v0 is adopted, and every velocity a primary
\* sweep of move() uses has a strictly positive dot product with v0.
C29_TurnedAroundNeverAdopted ==
    [][/\ (pc = "step2" /\ mv'.velocity # mv.velocity)
            => FLt(FZero, Dot(mv'.velocity, mv.origVelocity))
       /\ (/\ pc = "loop"
           /\ ~SwimCeiling(mv)
           /\ Moving(mv))
            => FLt(FZero, Dot(mv.velocity, mv.origVelocity))]_vars

\* C30: when the primary sweep is blocked and both step-ups fail, the slide
\* velocity is the velocity v without its component along the unit normal n
\* of the hit, v - n(n.v), with its z clamped to at most 0 unless the actor
\* is below the swim level or flying; the slide step changes neither the
\* position nor the remaining time.  The two ways of computing the slide
\* agree to a millionth of the speed, the rounding of single precision.
C30_SlideAlongPlane ==
    [][/\ (pc = "step2" /\ mv'.velocity # mv.velocity)
            => LET n == mv.planeNormal
                   along == VSub(mv.velocity, VScale(n, Dot(n, mv.velocity)))
                   free == FLt(mv.newPosition[3], mv.swimlevel) \/ mv.isFlying
                   expected == IF free THEN along
                               ELSE WithZ(along, IF FLt(along[3], FZero) THEN along[3]
                                                 ELSE FZero)
                   tolerance == FMul(Length(mv.velocity), F(1, 1000000))
                   Near(a, b) == FLe(FSub(a, b), tolerance) /\ FLe(FSub(b, a), tolerance)
               IN  /\ \A i \in 1 .. 3 : Near(mv'.velocity[i], expected[i])
                   /\ (free \/ FLe(mv'.velocity[3], FZero))
                   /\ mv'.newPosition = mv.newPosition
                   /\ mv'.remainingTime = mv.remainingTime
       /\ (pc = "step2" /\ mv'.iterations = mv.iterations) => mv' = mv]_vars

\* an actor on land walked into a gentle slope it could not step onto: it
\* goes on along the slope's foot, slower, at the place and with the time it
\* had
C30_Witness ==
    /\ pc = "loop"
    /\ mv.iterations = 1
    /\ ~mv.stepped
    /\ ~mv.isFlying
    /\ ~FLt(mv.newPosition[3], mv.swimlevel)
    /\ mv.planeNormal = NormalGentle
    /\ mv.origVelocity = Vec3f(0, 120, 0)
    /\ mv.velocity[1] = FZero
    /\ FLt(F(7679, 100), mv.velocity[2]) /\ FLt(mv.velocity[2], F(7681, 100))
    /\ mv.velocity[3] = FZero
    /\ mv.newPosition = mv.position
    /\ mv.remainingTime = mv.time

\* C31: stepMove succeeds if and only if its upward sweep and its forward
\* sweep from the raised position both move (fraction not below epsilon) and
\* its downward sweep hits a surface of slope at most sMaxSlope that is not
\* an actor; on success the position is the landing point and the remaining
\* time is multiplied by 1 - the forward fraction; on every failure, a
\* landing on an actor included, position and remaining time are unchanged.
\* Checked for both calls of an iteration and every answer to the sweeps.
C31_StepMoveOutcome ==
    (pc = "step1" \/ pc = "step2")
      => LET toMove == IF pc = "step1"
                       THEN VScale(mv.velocity, mv.remainingTime)
                       ELSE NormalizedTimes(mv.velocity, 10)
             Fraction(k) == IF k >= FracDen THEN FOne ELSE F(k, FracDen)
             Swept(start, end, k) ==
                 IF k >= FracDen THEN end
                 ELSE VAdd(VScale(VSub(end, start), Fraction(k)), start)
         IN
         \A o \in StepAnswers :
           LET step == stepMove(mv.newPosition, toMove, mv.remainingTime, o)
               raised == Swept(mv.newPosition,
                               VAdd(mv.newPosition, Vec3f(0, 0, sStepSizeUp)), o.up)
               forward == Swept(raised, VAdd(raised, toMove), o.fwd)
               landing == Swept(forward, VSub(forward, Vec3f(0, 0, sStepSizeDown)),
                                o.down.k)
               succeeds == /\ o.up >= 1
                           /\ o.fwd >= 1
                           /\ o.down.k < FracDen
                           /\ SlopeOk(o.down.normal)
                           /\ o.down.group # CollisionType_Actor
           IN  /\ step.result = succeeds
               /\ succeeds => /\ step.position = landing
                              /\ step.remainingTime
                                     = FMul(mv.remainingTime, FSub(FOne, Fraction(o.fwd)))
                              /\ FLe(step.remainingTime, mv.remainingTime)
               /\ ~succeeds => /\ step.position = mv.newPosition
                               /\ step.remainingTime = mv.remainingTime

\* an actor stepped halfway forward onto a gentle slope: it is at the landing
\* point, half the step up minus half the step down above where it was, and
\* half of its time is left
C31_Witness ==
    /\ pc \in {"loop", "probe"}
    /\ mv.running
    /\ mv.stepped
    /\ mv.iterations = 1
    /\ mv.remainingTime = FMul(mv.time, F(1, 2))
    /\ mv.newPosition[3] = FSub(FAdd(mv.position[3], F(sStepSizeUp, 2)),
                                 F(sStepSizeDown, 2))
    /\ mv.newPosition[2] # mv.position[2]

\* C32: the ground probe after the loop is sStepSizeDown + 2 = 64 units long
\* for an actor whose on-ground flag was set before the call and 2 units long
\* for one whose flag was not, so an airborne actor is put on ground only by
\* qualifying ground within 2 units; when the probe qualifies, the position
\* of an actor that does not fly is set to one unit above the end of the
\* probe, and that of a flying actor is left as it is.
C32_ProbeLength ==
    [][pc = "probe"
         => LET a == moveCalls'[Len(moveCalls')].probe
                wasOnGround == mActors[mv.ptr].onGround
                length == IF wasOnGround THEN FromInt(64) ELSE FromInt(2)
                qualifies == /\ a.performed
                             /\ a.k < FracDen
                             /\ SlopeOk(a.normal)
                             /\ a.group # CollisionType_Actor
                from == mv.newPosition[3]
                hit == FAdd(FMul(FSub(FSub(from, length), from), F(a.k, FracDen)), from)
                end == IF qualifies /\ ~mv.isFlying THEN FAdd(hit, FOne) ELSE from
                result == mMovementResults'[Len(mMovementResults')].pos
            IN  /\ mActors'[mv.ptr].onGround = qualifies
                /\ result[1] = mv.newPosition[1]
                /\ result[2] = mv.newPosition[2]
                /\ moveCalls'[Len(moveCalls')].newPosition[3] = end
                /\ result[3] = FSub(end, FromInt(halfExtentsZ))]_vars

\* an actor that stood on ground and did not move found a gentle slope
\* halfway down its probe of 64 units: it is on ground, 31 units lower
C32_Witness ==
    /\ pc = "drain"
    /\ Len(mMovementResults) = 1
    /\ Len(moveCalls) = 1
    /\ moveCalls[1].probe.performed
    /\ moveCalls[1].probe.k = 1
    /\ moveCalls[1].movement = Zero3
    /\ mActors[moveCalls[1].ptr].onGround
    /\ mMovementResults[1].pos
          = VSub(world.ref[moveCalls[1].ptr].pos, Vec3f(0, 0, 31))

\* C33: a jump.  For an actor that does not fly and is not below the swim
\* level when move() starts, whose movement turned by its yaw, v, has
\* v.z > 0: the velocity of the loop is v, plus the inertial force stored
\* before the call if the actor was not on ground (times the storm factor);
\* and if the actor is not below the swim level after the loop, the ground
\* probe is skipped, the call ends with on-ground false and the stored
\* inertial force is v with g*time subtracted from its z (times the
\* slow-fall factor if that is negative), also for an actor that was on
\* ground and still touches the floor.
C33_JumpTakeOff ==
    [][/\ (/\ pc = "drain"
           /\ iter <= Len(mMovementQueue)
           /\ pc' # "drain"
           /\ ~mv'.isFlying
           /\ ~FLt(mv'.position[3], mv'.swimlevel)
           /\ FLt(FZero, RotateYaw(world.ref[mv'.ptr].yaw, mv'.movement)[3]))
            => LET v == RotateYaw(world.ref[mv'.ptr].yaw, mv'.movement)
                   stored == mActors[mv'.ptr].inertialForce
                   sum == IF mActors[mv'.ptr].onGround THEN v ELSE VAdd(v, stored)
               IN  /\ mv'.velocity = IF world.stormPct = 100 THEN sum
                                     ELSE VScale(sum, F(world.stormPct, 100))
                   /\ mv'.inertia = v
       /\ (/\ pc = "probe"
           /\ ~mv.isFlying
           /\ ~FLt(mv.position[3], mv.swimlevel)
           /\ ~FLt(mv.newPosition[3], mv.swimlevel)
           /\ FLt(FZero, RotateYaw(world.ref[mv.ptr].yaw, mv.movement)[3]))
            => LET v == RotateYaw(world.ref[mv.ptr].yaw, mv.movement)
                   z == FAdd(v[3], FMul(mv.time, F(-6272, 10)))
               IN  /\ ~moveCalls'[Len(moveCalls')].probe.performed
                   /\ ~mActors'[mv.ptr].onGround
                   /\ mActors'[mv.ptr].inertialForce
                         = <<v[1], v[2], IF FLt(z, FZero) THEN FMul(z, mv.slowFall) ELSE z>>
                   /\ mMovementResults'[Len(mMovementResults')].pos
                         = WithZ(mv.newPosition,
                                 FSub(mv.newPosition[3], FromInt(halfExtentsZ)))]_vars

\* an actor that stood on the floor with a slow-fall effect jumped weakly
\* (5 units/s up): it is off ground and its stored inertial force already
\* points down, damped to half of 5 - 10.45
C33_Witness ==
    /\ pc = "drain"
    /\ Len(moveCalls) = 1
    /\ world.scene = "floor"
    /\ moveCalls[1].movement = Vec3f(0, 0, 5)
    /\ moveCalls[1].time = Tick
    /\ ~moveCalls[1].probe.performed
    /\ world.ref[moveCalls[1].ptr].slowFallMagnitude = 100
    /\ ~world.ref[moveCalls[1].ptr].flying
    /\ ~mActors[moveCalls[1].ptr].onGround
    /\ mActors[moveCalls[1].ptr].inertialForce[1] = FZero
    /\ mActors[moveCalls[1].ptr].inertialForce[2] = FZero
    /\ FLt(F(-273, 100), mActors[moveCalls[1].ptr].inertialForce[3])
    /\ FLt(mActors[moveCalls[1].ptr].inertialForce[3], F(-272, 100))

\* some animated child of the Object has no node in the scene graph
C34_NodeMissing(object, scene) ==
    /\ "mAnimatedShapes" \in DOMAIN object
    /\ \E i \in DOMAIN object.mAnimatedShapes :
           ~scene[object.mAnimatedShapes[i].recIndex].found

\* C34: a stepSimulation call whose animateCollisionShapes cannot find the
\* scene node of an animated child of an Object changes no child transform
\* and no child scaling of that Object, and leaves the AABB that the
\* collision world holds for the Object equal to the one of its child
\* transforms.
C34_MissingNodeKeepsCompound ==
    [][\A ptr \in {"idol"}, dt \in DtValues, scenes \in [{"idol"} -> SceneGraphs] :
          (C34_NodeMissing(mObjects[ptr], scenes[ptr]) /\ StepSimulation(dt, scenes))
              => /\ mObjects'[ptr].children = mObjects[ptr].children
                 /\ mObjects'[ptr].aabb = WorldAabb(mObjects'[ptr].origin, mObjects'[ptr].rotation,
                                                   mObjects'[ptr].children)]_vars
====
